---- MODULE Spec2Model ----
(***************************************************************************)
(* Model of the resilient execution orchestrator of the assistant-browser  *)
(* package (OrchestratorV2) and of the collaborators it drives.            *)
(*                                                                         *)
(* Time is a discrete clock `now` in milliseconds.  Error descriptions are *)
(* sequences of characters, so that the substring classification of        *)
(* isRetryableError is computed and not assumed.  Delays are real numbers  *)
(* in the source; the model keeps them exact as integers in units of       *)
(* 1/DelayScale ms.                                                        *)
(***************************************************************************)
EXTENDS Integers, Sequences, FiniteSets, TLC

\* ------------------------------------------------------------------------
\* Bounds of the model
\* ------------------------------------------------------------------------
\* Math.random() is drawn from {0/RandDen, ..., (RandDen-1)/RandDen}
RandDen == 4
\* largest attempt index fed to calculateDelay in SpecDelay
MaxAttemptIdx == 5
\* largest initialDelayMs / maxDelayMs / backoffMultiplier in SpecDelay
MaxInitialDelay == 3
MaxMaxDelay == 6
MaxMultiplier == 3
\* the clock runs from 0 to MaxTime
MaxTime == 1
\* largest maxRetries of a configured policy
MaxRetriesBound == 3
\* longest filler put before and after a marker in SpecClassify
MaxPad == 1
\* number of runFlow calls made one after the other in SpecRuns
MaxRunCalls == 2
MaxWorkflowSteps == 2
MaxTaskSteps == 2
MaxTaskTimeout == 1
MaxTaskCalls == 2
MaxKeyPresses == 2

\* ------------------------------------------------------------------------
\* Strings: an error description is a sequence of characters
\* ------------------------------------------------------------------------
\* "ABCDEFGHIJKLMNOPQRSTUVWXYZ"
UpperChars ==
  <<"A","B","C","D","E","F","G","H","I","J","K","L","M","N","O","P","Q","R",
    "S","T","U","V","W","X","Y","Z">>

\* "abcdefghijklmnopqrstuvwxyz"
LowerChars ==
  <<"a","b","c","d","e","f","g","h","i","j","k","l","m","n","o","p","q","r",
    "s","t","u","v","w","x","y","z">>

\* "0123456789"
DigitChars ==
  <<"0","1","2","3","4","5","6","7","8","9">>

\* String.prototype.toLowerCase, character by character
ToLowerChar(c) ==
  IF \E i \in 1..Len(UpperChars) : UpperChars[i] = c
  THEN LowerChars[CHOOSE i \in 1..Len(UpperChars) : UpperChars[i] = c]
  ELSE c

toLowerCase(s) == [i \in 1..Len(s) |-> ToLowerChar(s[i])]

\* String.prototype.includes
includes(s, p) ==
  \E i \in 0..(Len(s) - Len(p)) : SubSeq(s, i + 1, i + Len(p)) = p

\* Number -> decimal string, as a template literal `${ms}` formats it
RECURSIVE NumToChars(_)
NumToChars(n) ==
  IF n < 10 THEN <<DigitChars[n + 1]>>
  ELSE NumToChars(n \div 10) \o <<DigitChars[(n % 10) + 1]>>

\* "timeout"
PatTimeout ==
  <<"t","i","m","e","o","u","t">>

\* "network"
PatNetwork ==
  <<"n","e","t","w","o","r","k">>

\* "FAILED_TO_START_DEVICE"
PatFailedToStartDevice ==
  <<"F","A","I","L","E","D","_","T","O","_","S","T","A","R","T","_","D","E",
    "V","I","C","E">>

\* "NotFoundError"
PatNotFoundError ==
  <<"N","o","t","F","o","u","n","d","E","r","r","o","r">>

\* "temporary"
PatTemporary ==
  <<"t","e","m","p","o","r","a","r","y">>

\* variant: timeouts are not among the retryable markers
retryablePatternsNoTimeout ==
  <<PatNetwork, PatFailedToStartDevice, PatNotFoundError, PatTemporary>>

retryablePatterns ==
  <<PatTimeout, PatNetwork, PatFailedToStartDevice, PatNotFoundError,
    PatTemporary>>

\* variant: the message is lower-cased, the patterns are not
isRetryableErrorPatternCase(errorMsg) ==
  LET lower == toLowerCase(errorMsg) IN
  \E k \in 1..Len(retryablePatterns) :
    includes(lower, retryablePatterns[k])

\* OrchestratorV2.isRetryableError
isRetryableError(errorMsg) ==
  LET lower == toLowerCase(errorMsg) IN
  \E k \in 1..Len(retryablePatterns) :
    includes(lower, toLowerCase(retryablePatterns[k]))

\* error descriptions raised by the orchestrator itself
\* "Screenshot blob is null - capture failed"
MsgBlobNull ==
  <<"S","c","r","e","e","n","s","h","o","t"," ","b","l","o","b"," ","i","s",
    " ","n","u","l","l"," ","-"," ","c","a","p","t","u","r","e"," ","f","a",
    "i","l","e","d">>

\* "Failed to get media stream"
MsgNoStream ==
  <<"F","a","i","l","e","d"," ","t","o"," ","g","e","t"," ","m","e","d","i",
    "a"," ","s","t","r","e","a","m">>

\* "Operation timeout after "
MsgTimeoutPrefix ==
  <<"O","p","e","r","a","t","i","o","n"," ","t","i","m","e","o","u","t"," ",
    "a","f","t","e","r"," ">>

\* "ms"
MsgTimeoutSuffix ==
  <<"m","s">>

\* the rejection of the deadline timer of withTimeout
TimeoutError(ms) == MsgTimeoutPrefix \o NumToChars(ms) \o MsgTimeoutSuffix

\* error descriptions the platform raises from getDisplayMedia / clone
\* "network error"
MsgNetworkError ==
  <<"n","e","t","w","o","r","k"," ","e","r","r","o","r">>

\* "Permission denied"
MsgPermissionDenied ==
  <<"P","e","r","m","i","s","s","i","o","n"," ","d","e","n","i","e","d">>

\* rejections of navigator.mediaDevices.getDisplayMedia
EnvErrors == {MsgNetworkError, MsgPermissionDenied}

\* "InvalidStateError"
MsgInvalidState ==
  <<"I","n","v","a","l","i","d","S","t","a","t","e","E","r","r","o","r">>

\* exceptions of MediaStream.clone inside cloneAndMimic
CloneErrors == {MsgInvalidState}

\* ------------------------------------------------------------------------
\* Backoff calculator
\* ------------------------------------------------------------------------
Min(a, b) == IF a <= b THEN a ELSE b

\* Math.pow for a non-negative integer exponent
RECURSIVE Pow(_, _)
Pow(b, e) == IF e = 0 THEN 1 ELSE b * Pow(b, e - 1)

\* the jitter amplitude 0.2 of calculateDelay, as the fraction 1/JitterInv
JitterInv == 5
\* delays are integers in units of 1/DelayScale ms
DelayScale == JitterInv * RandDen

\* variant: the exponential delay is not clamped to maxDelayMs
exponentialDelayUnclamped(policy, attempt) ==
  policy.initialDelayMs * Pow(policy.backoffMultiplier, attempt - 1)

\* calculateDelay, lines 62-65: the clamped exponential delay, in ms
exponentialDelay(policy, attempt) ==
  Min(policy.initialDelayMs * Pow(policy.backoffMultiplier, attempt - 1),
      policy.maxDelayMs)

\* variant: the jitter is not centred, exponentialDelay * 0.2 * (random * 2)
jitterOneSided(expDelay, u) == expDelay * (2 * u)

\* calculateDelay, line 67: exponentialDelay * 0.2 * (Math.random() * 2 - 1)
\* with Math.random() = u / RandDen, in units of 1/DelayScale ms
jitter(expDelay, u) == expDelay * (2 * u - RandDen)

\* OrchestratorV2.calculateDelay, in units of 1/DelayScale ms
calculateDelay(policy, attempt, u) ==
  exponentialDelay(policy, attempt) * DelayScale
    + jitter(exponentialDelay(policy, attempt), u)

\* ------------------------------------------------------------------------
\* State
\* ------------------------------------------------------------------------
VARIABLES
  context,          \* OrchestratorV2.context: sequence of attempt records
  retryPolicy,      \* OrchestratorV2.retryPolicy
  operationTimeout, \* OrchestratorV2.operationTimeout
  metrics,          \* OrchestratorV2.metrics
  now,              \* Date.now()
  run,              \* per runFlow call: its position and local variables
  cachesAvailable,  \* 'caches' in globalThis
  cacheStore,       \* keys stored in the 'assistant-cache' cache
  listeners,        \* number of keydown listeners attached to the document
  started,          \* number of runFlow calls made
  calc,             \* SpecDelay: inputs and results of calculateDelay
  classified,       \* SpecClassify: an error description and its classification
  simple,           \* the Orchestrator instance of Orchestrator.ts and its runFlow call
  ai,               \* the AIOrchestrator instance, its adapter and its executeTask call
  page,             \* the document: key presses made, clicks on the active element,
                    \* and CloneStreamModule.actionLogs
  audit             \* the SecurityCompliance instance of KeyboardNavigation.ts

vars ==
  <<context, retryPolicy, operationTimeout, metrics, now, run,
    cachesAvailable, cacheStore, listeners, started, calc, classified, simple, ai, page, audit>>

orchVars ==
  <<context, retryPolicy, operationTimeout, metrics, now, run,
    cachesAvailable, cacheStore, listeners, started>>

Runs == {1, 2}
Null == "null"
Undefined == "undefined"

\* the policy and timeout set by the field initialisers
DefaultRetryPolicy ==
  [maxRetries |-> 3, initialDelayMs |-> 500, maxDelayMs |-> 5000,
   backoffMultiplier |-> 2]

DefaultOperationTimeout == 30000

\* policies a caller configures (delays in ms)
DelayPolicies ==
  { [initialDelayMs |-> 0, maxDelayMs |-> 0, backoffMultiplier |-> 2],
    [initialDelayMs |-> 1, maxDelayMs |-> 1, backoffMultiplier |-> 2] }

ConfiguredPolicies ==
  { [maxRetries |-> n, initialDelayMs |-> d.initialDelayMs,
     maxDelayMs |-> d.maxDelayMs, backoffMultiplier |-> d.backoffMultiplier] :
      n \in 1..MaxRetriesBound, d \in DelayPolicies }

\* arguments of setOperationTimeout
ConfiguredTimeouts == {1}

\* { ...a, ...b }
Spread(a, b) ==
  [f \in DOMAIN a \cup DOMAIN b |-> IF f \in DOMAIN b THEN b[f] ELSE a[f]]

IdleRun ==
  [pc |-> "idle", retries |-> 0, success |-> FALSE, startTime |-> 0,
   attemptStartTime |-> 0, timestamp |-> 0, cacheKey |-> Undefined,
   steps |-> <<>>, blob |-> Undefined, guardStart |-> 0, guardMs |-> 0,
   waitStart |-> 0, delayMs |-> 0, result |-> Undefined,
   \* bookkeeping of the call, not program state: the records it appended,
   \* the backoff waits it began, how cacheScreenshot ended in the current
   \* attempt, the attempts whose guard timer fired (with the guard's ms),
   \* and the history, the policy and the timeout as the call found them
   own |-> <<>>, waits |-> 0, cached |-> Undefined, expired |-> {},
   before |-> <<>>, policyAtStart |-> DefaultRetryPolicy,
   timeoutAtStart |-> DefaultOperationTimeout,
   \* the collaborators invoked in the current attempt, in order, each with
   \* whether it runs under withTimeout
   invoked |-> <<>>,
   \* the deadline timers set by withTimeout that are pending
   timers |-> {},
   \* the attempts whose guard timer fired and whose guarded operation,
   \* left running, has settled since
   settled |-> {}]

InitCalc == [attempt |-> 0, u |-> 0, bases |-> <<>>, delay |-> 0]

InitClassified ==
  [applied |-> FALSE, errorMsg |-> <<>>, retryable |-> FALSE, breaks |-> FALSE]

\* KeyboardNavigation.ts, SecurityCompliance: auditLog (line 184), then
\* bookkeeping: the entries logged since construction, those logged since
\* the last clearAuditTrail, and the operations called
InitAudit == [auditLog |-> <<>>, logged |-> 0, sinceClear |-> 0, ops |-> 0]

\* CloneStreamModule.ts: actionLogs (line 14); the clicks the handlers made
\* on the active element and the keydown events dispatched to the document
InitPage == [actionLogs |-> <<>>, clicks |-> 0, keys |-> 0]

\* ai-orchestrator.ts: the field executionHistory of the instance and the
\* length of the conversationHistory of its OpenAIAdapter, then the position
\* and the local variables of the executeTask call (task, startTime, steps,
\* currentDecision, workflowSteps as their number, the loop index i, the
\* caught stepError), the time the step in progress began, and what the call
\* returned and when
InitAI ==
  [executionHistory |-> <<>>, conversation |-> 0,
   pc |-> "idle", task |-> [maxSteps |-> 0, timeout |-> 0], startTime |-> 0,
   steps |-> <<>>, currentDecision |-> Null, workflowSteps |-> 0, i |-> 0,
   stepError |-> Undefined, stepStart |-> 0,
   result |-> Undefined, returnedAt |-> 0, calls |-> 0]

\* Orchestrator.ts: the fields of the instance (context, maxRetries), then
\* the position and the local variables of its runFlow call, then
\* bookkeeping of the call (the records it appended, the waits it began)
InitSimple ==
  [context |-> <<>>, maxRetries |-> 3,
   pc |-> "idle", retries |-> 0, success |-> FALSE, timestamp |-> 0,
   cacheKey |-> Undefined, steps |-> <<>>, blob |-> Undefined,
   waitStart |-> 0, delayMs |-> 0, result |-> Undefined,
   own |-> <<>>, waits |-> 0]

InitOrch ==
  /\ context = <<>>
  /\ metrics = [totalAttempts |-> 0, successfulAttempts |-> 0, totalTimeMs |-> 0]
  /\ now = 0
  /\ run = [r \in Runs |-> IdleRun]
  /\ cachesAvailable \in BOOLEAN
  /\ cacheStore = {}
  /\ listeners = 0
  /\ started = 0

\* the orchestrator after construction, or after construction and a first
\* configuration by setRetryPolicy and setOperationTimeout
Init ==
  /\ InitOrch
  /\ \/ retryPolicy = DefaultRetryPolicy /\ operationTimeout = DefaultOperationTimeout
     \/ retryPolicy \in ConfiguredPolicies /\ operationTimeout \in ConfiguredTimeouts
  /\ calc = InitCalc
  /\ classified = InitClassified
  /\ ai = InitAI
  /\ page = InitPage
  /\ audit = InitAudit
  /\ simple = InitSimple

\* ------------------------------------------------------------------------
\* Collaborators
\* ------------------------------------------------------------------------
\* a line of a steps array: a fixed text, followed by an interpolated
\* error description if there is one
Step(text) == [text |-> text, arg |-> <<>>]
StepWith(text, errorMsg) == [text |-> text, arg |-> errorMsg]

CaptureSteps ==
  <<Step("Step 1: Request screen capture permission"),
    Step("Step 2: Capture video track from stream"),
    Step("Step 3: Grab frame from video track"),
    Step("Step 4: Draw frame onto canvas with verification marker"),
    Step("Step 5: Convert canvas to Blob for storage")>>

\* "No video track found in stream"
MsgNoVideoTrack ==
  <<"N","o"," ","v","i","d","e","o"," ","t","r","a","c","k"," ","f","o","u",
    "n","d"," ","i","n"," ","s","t","r","e","a","m">>

\* "Unable to get 2D context from canvas"
MsgNoCanvasContext ==
  <<"U","n","a","b","l","e"," ","t","o"," ","g","e","t"," ","2","D"," ","c",
    "o","n","t","e","x","t"," ","f","r","o","m"," ","c","a","n","v","a","s">>

\* failures inside ScreenshotModule.captureWithSteps, by the step they follow
CaptureFailures ==
  { [after |-> 1, msg |-> e] : e \in EnvErrors } \cup
  { [after |-> 2, msg |-> MsgNoVideoTrack],
    [after |-> 4, msg |-> MsgNoCanvasContext] }

\* ScreenshotModule.captureWithSteps: the values its promise resolves with.
\* Every failure inside is caught and turned into a null blob (lines 72-76);
\* canvas.toBlob may also hand over a null blob after step 5.
captureWithSteps ==
  { [blob |-> "Blob", steps |-> CaptureSteps],
    [blob |-> Null, steps |-> CaptureSteps] } \cup
  { [blob |-> Null,
     steps |-> Append(SubSeq(CaptureSteps, 1, f.after),
                      StepWith("Error occurred: ", f.msg))] : f \in CaptureFailures }

StepCached == Step("Step 6: Screenshot cached successfully")
StepCloned == Step("Step 7: Stream cloned and action listeners attached")

\* `/screenshot-${Date.now()}`
CacheKey(t) == <<"/screenshot-", t>>

\* ------------------------------------------------------------------------
\* OrchestratorV2.runFlow, one action per stretch of code between two awaits
\* ------------------------------------------------------------------------
\* a collaborator is invoked, under withTimeout or not
\* variant: the call is logged ahead of the calls made before it
InvokeFirst(loc, op, guarded) ==
  <<[op |-> op, guarded |-> guarded]>> \o loc.invoked

Invoke(loc, op, guarded) ==
  Append(loc.invoked, [op |-> op, guarded |-> guarded])

\* withTimeout, lines 75-80: setTimeout(..., ms); the timer is cleared
\* nowhere
withTimeout(loc, attempt, op, ms) ==
  loc.timers \cup {[attempt |-> attempt, op |-> op, deadline |-> now + ms]}

\* lines 173-181: leave the loop and return
Exit(r, loc, ctx, met) ==
  /\ context' = ctx
  /\ metrics' = [met EXCEPT !.totalTimeMs = now - loc.startTime]
  /\ run' = [run EXCEPT ![r] =
               [loc EXCEPT !.pc = "done", !.result = loc.success,
                           !.delayMs = 0, !.waitStart = 0,
                           !.guardStart = 0, !.guardMs = 0]]

\* variant: one attempt too many
LoopConditionOffByOne(loc) ==
  ~loc.success /\ loc.retries <= retryPolicy.maxRetries

\* variant: the loop goes on after a success
LoopConditionIgnoresSuccess(loc) == loc.retries < retryPolicy.maxRetries

\* variant: the loop has no attempt budget
LoopConditionUnbounded(loc) == ~loc.success

\* variant: the loop ends when the budget is reached exactly
LoopConditionNotEqual(loc) == ~loc.success /\ loc.retries # retryPolicy.maxRetries

\* line 94: the loop condition
LoopCondition(loc) == ~loc.success /\ loc.retries < retryPolicy.maxRetries

\* variant: a retryable failure is followed by a wait also when the budget
\* is used up
ShouldWaitIgnoresBudget(loc, errorMsg) == isRetryableError(errorMsg)

\* line 162: wait and retry
ShouldWait(loc, errorMsg) ==
  isRetryableError(errorMsg) /\ loc.retries < retryPolicy.maxRetries

\* variant: a non-retryable error does not leave the loop
ShouldBreakNever(errorMsg) == FALSE

\* line 166: give up
ShouldBreak(errorMsg) == ~isRetryableError(errorMsg)

\* lines 94-108: either start the next attempt up to the
\* await of the guarded capture, or leave the loop
LoopOrExit(r, loc, ctx, met) ==
  IF LoopCondition(loc)
  THEN /\ context' = ctx
       /\ metrics' = [met EXCEPT !.totalAttempts = @ + 1]
       /\ run' = [run EXCEPT ![r] =
                    [loc EXCEPT !.pc = "capture",
                                !.retries = @ + 1,
                                !.attemptStartTime = now,
                                !.timestamp = now,
                                !.cacheKey = CacheKey(now),
                                !.steps = <<>>,
                                !.blob = Undefined,
                                !.guardStart = now,
                                !.guardMs = operationTimeout,
                                !.delayMs = 0,
                                !.waitStart = 0,
                                !.cached = Undefined,
                                !.invoked = <<[op |-> "capture",
                                               guarded |-> TRUE]>>,
                                !.timers = withTimeout(loc, loc.retries + 1,
                                                       "capture",
                                                       operationTimeout)]]
  ELSE Exit(r, loc, ctx, met)

\* variant: a call starts with an empty history
StartRunFresh(r) ==
  /\ run[r].pc \in {"idle", "done"}
  /\ started' = started + 1
  /\ LoopOrExit(r, [IdleRun EXCEPT !.startTime = now, !.before = context,
                                  !.policyAtStart = retryPolicy,
                                  !.timeoutAtStart = operationTimeout],
                <<>>, metrics)
  /\ UNCHANGED <<retryPolicy, operationTimeout, now, cachesAvailable,
                 cacheStore, listeners, calc, classified, simple, ai, page, audit>>

\* lines 86-92, then the loop
StartRun(r) ==
  /\ run[r].pc \in {"idle", "done"}
  /\ started' = started + 1
  /\ LoopOrExit(r, [IdleRun EXCEPT !.startTime = now, !.before = context,
                                  !.policyAtStart = retryPolicy,
                                  !.timeoutAtStart = operationTimeout],
                context, metrics)
  /\ UNCHANGED <<retryPolicy, operationTimeout, now, cachesAvailable,
                 cacheStore, listeners, calc, classified, simple, ai, page, audit>>

\* variant: the record is written over the last one
pushOverLast(ctx, rec) ==
  IF ctx = <<>> THEN <<rec>> ELSE [ctx EXCEPT ![Len(ctx)] = rec]

\* variant: the record is appended twice
pushTwice(ctx, rec) == Append(Append(ctx, rec), rec)

\* lines 133 and 151: this.context.push(rec)
push(ctx, rec) == Append(ctx, rec)

\* variant: the record carries the index of the attempt before
FailureRecordStaleIndex(loc0, errorMsg) ==
  [attempt |-> loc0.retries - 1, timestamp |-> loc0.timestamp,
   steps |-> <<StepWith("Error: ", errorMsg)>>,
   cacheKey |-> loc0.cacheKey, success |-> FALSE,
   durationMs |-> now - loc0.attemptStartTime,
   error |-> errorMsg]

\* lines 151-159: the record of a failed attempt
FailureRecord(loc0, errorMsg) ==
  [attempt |-> loc0.retries, timestamp |-> loc0.timestamp,
   steps |-> <<StepWith("Error: ", errorMsg)>>,
   cacheKey |-> loc0.cacheKey, success |-> FALSE,
   durationMs |-> now - loc0.attemptStartTime,
   error |-> errorMsg]

\* lines 145-170: the catch block
Catch(r, loc0, errorMsg) ==
  LET rec == FailureRecord(loc0, errorMsg)
      ctx == push(context, rec)
      loc == [loc0 EXCEPT !.own = Append(@, rec)]
  IN  IF ShouldWait(loc, errorMsg)
      THEN \E u \in 0..(RandDen - 1) :
             /\ context' = ctx
             /\ run' = [run EXCEPT ![r] =
                          [loc EXCEPT !.pc = "wait", !.waitStart = now,
                                      !.delayMs = calculateDelay(retryPolicy, loc.retries, u),
                                      !.waits = @ + 1]]
             /\ UNCHANGED metrics
      ELSE IF ShouldBreak(errorMsg)
           THEN Exit(r, loc, ctx, metrics)
           ELSE LoopOrExit(r, loc, ctx, metrics)

\* line 165: the backoff timer fires, then the loop
WaitDone(r) ==
  /\ run[r].pc = "wait"
  /\ (now - run[r].waitStart) * DelayScale >= run[r].delayMs
  /\ LoopOrExit(r, run[r], context, metrics)
  /\ UNCHANGED <<retryPolicy, operationTimeout, now, cachesAvailable,
                 cacheStore, listeners, started, calc, classified, simple, ai, page, audit>>

\* lines 116-122: after cacheScreenshot returned, up to the await of the
\* guarded getDisplayMedia
AfterCache(r, loc, outcome) ==
  run' = [run EXCEPT ![r] =
            [loc EXCEPT !.pc = "media",
                        !.steps = Append(@, StepCached),
                        !.guardStart = now,
                        !.guardMs = operationTimeout,
                        !.cached = outcome,
                        !.invoked = Invoke(loc, "media", TRUE),
                        !.timers = withTimeout(loc, loc.retries, "media",
                                               operationTimeout)]]

\* lines 105-115 and 201-208: the capture promise wins the race
CaptureResolves(r) ==
  /\ run[r].pc = "capture"
  /\ \E res \in captureWithSteps :
       IF res.blob = Null
       THEN Catch(r, run[r], MsgBlobNull)
       ELSE LET loc == [run[r] EXCEPT !.blob = res.blob, !.steps = res.steps] IN
            /\ IF ~cachesAvailable
               THEN AfterCache(r, loc, "unavailable")
               ELSE run' = [run EXCEPT ![r] =
                              [loc EXCEPT !.pc = "cacheOpen",
                                          !.invoked = Invoke(loc, "cache", FALSE)]]
            /\ UNCHANGED <<context, metrics>>
  /\ UNCHANGED <<retryPolicy, operationTimeout, now, cachesAvailable,
                 cacheStore, listeners, started, calc, classified, simple, ai, page, audit>>

\* lines 208-216: caches.open resolves; build the response and call cache.put
CacheOpenResolves(r) ==
  /\ run[r].pc = "cacheOpen"
  /\ run' = [run EXCEPT ![r].pc = "cachePut"]
  /\ UNCHANGED <<context, retryPolicy, operationTimeout, metrics, now,
                 cachesAvailable, cacheStore, listeners, started,
                 calc, classified, simple, ai, page, audit>>

\* lines 218-221: caches.open rejects; the error is logged and swallowed
CacheOpenRejects(r) ==
  /\ run[r].pc = "cacheOpen"
  /\ AfterCache(r, run[r], "open failed")
  /\ UNCHANGED <<context, retryPolicy, operationTimeout, metrics, now,
                 cachesAvailable, cacheStore, listeners, started,
                 calc, classified, simple, ai, page, audit>>

\* lines 216-217: cache.put resolves
CachePutResolves(r) ==
  /\ run[r].pc = "cachePut"
  /\ cacheStore' = cacheStore \cup {run[r].cacheKey}
  /\ AfterCache(r, run[r], "stored")
  /\ UNCHANGED <<context, retryPolicy, operationTimeout, metrics, now,
                 cachesAvailable, listeners, started, calc, classified, simple, ai, page, audit>>

\* variant: the rejection of cache.put escapes cacheScreenshot
CachePutRejectsThrows(r) ==
  /\ run[r].pc = "cachePut"
  /\ Catch(r, run[r], MsgPermissionDenied)
  /\ UNCHANGED <<retryPolicy, operationTimeout, now, cachesAvailable,
                 cacheStore, listeners, started, calc, classified, simple, ai, page, audit>>

\* lines 218-221: cache.put rejects; the error is logged and swallowed
CachePutRejects(r) ==
  /\ run[r].pc = "cachePut"
  /\ AfterCache(r, run[r], "put failed")
  /\ UNCHANGED <<context, retryPolicy, operationTimeout, metrics, now,
                 cachesAvailable, cacheStore, listeners, started,
                 calc, classified, simple, ai, page, audit>>

\* lines 119-144 and CloneStreamModule.cloneAndMimic: getDisplayMedia wins
\* the race; the stream is cloned, a keydown listener is attached, and the
\* attempt is recorded as a success
MediaResolves(r) ==
  /\ run[r].pc = "media"
  /\ \E stream \in {"MediaStream", Null} :
       IF stream = Null
       THEN /\ Catch(r, run[r], MsgNoStream)
            /\ UNCHANGED listeners
       ELSE \/ \E e \in CloneErrors :       \* stream.clone() throws
                 /\ Catch(r, [run[r] EXCEPT !.invoked =
                                 Invoke(run[r], "clone", FALSE)], e)
                 /\ UNCHANGED listeners
            \/ LET steps == Append(run[r].steps, StepCloned)
                   rec == [attempt |-> run[r].retries,
                           timestamp |-> run[r].timestamp,
                           steps |-> steps, cacheKey |-> run[r].cacheKey,
                           success |-> TRUE,
                           durationMs |-> now - run[r].attemptStartTime,
                           error |-> Undefined]
                   loc == [run[r] EXCEPT !.steps = steps, !.success = TRUE,
                                         !.own = Append(@, rec),
                                         !.invoked =
                                           Invoke(run[r], "clone", FALSE)]
               IN  /\ listeners' = listeners + 1
                   /\ LoopOrExit(r, loc, push(context, rec),
                                 [metrics EXCEPT !.successfulAttempts = @ + 1])
  /\ UNCHANGED <<retryPolicy, operationTimeout, now, cachesAvailable,
                 cacheStore, started, calc, classified, simple, ai, page, audit>>

\* lines 119-122: getDisplayMedia rejects before the deadline
MediaRejects(r) ==
  /\ run[r].pc = "media"
  /\ \E e \in EnvErrors : Catch(r, run[r], e)
  /\ UNCHANGED <<retryPolicy, operationTimeout, now, cachesAvailable,
                 cacheStore, listeners, started, calc, classified, simple, ai, page, audit>>

\* OrchestratorV2.withTimeout, lines 77-79: the deadline timer of the guard
\* fires before the guarded promise settles
GuardTimeout(r) ==
  /\ run[r].pc \in {"capture", "media"}
  /\ now >= run[r].guardStart + run[r].guardMs
  /\ Catch(r, [run[r] EXCEPT
                 !.expired =
                   @ \cup {[attempt |-> run[r].retries, ms |-> run[r].guardMs]},
                 !.timers =
                   @ \ {[attempt |-> run[r].retries, op |-> run[r].pc,
                         deadline |-> run[r].guardStart + run[r].guardMs]}],
           TimeoutError(run[r].guardMs))
  /\ UNCHANGED <<retryPolicy, operationTimeout, now, cachesAvailable,
                 cacheStore, listeners, started, calc, classified, simple, ai, page, audit>>

\* the guard whose guarded promise the call awaits
IsCurrentGuard(r, t) ==
  /\ run[r].pc \in {"capture", "media"}
  /\ t.attempt = run[r].retries
  /\ t.op = run[r].pc

\* withTimeout, lines 77-79: the deadline timer of a guard whose race is
\* settled fires; its rejection has no handler left to run
TimerFires(r) ==
  /\ \E t \in run[r].timers :
       /\ ~IsCurrentGuard(r, t)
       /\ now >= t.deadline
       /\ run' = [run EXCEPT ![r].timers = @ \ {t}]
  /\ UNCHANGED <<context, retryPolicy, operationTimeout, metrics, now,
                 cachesAvailable, cacheStore, listeners, started,
                 calc, classified, simple, ai, page, audit>>

\* variant: the late completion is recorded as a failure of the attempt
OrphanSettlesRecords(r) ==
  /\ \E e \in run[r].expired :
       /\ e.attempt \notin run[r].settled
       /\ run' = [run EXCEPT ![r].settled = @ \cup {e.attempt}]
       /\ context' = push(context, run[r].own[e.attempt])
  /\ UNCHANGED <<retryPolicy, operationTimeout, metrics, now,
                 cachesAvailable, cacheStore, listeners, started,
                 calc, classified, simple, ai, page, audit>>

\* withTimeout, lines 75-80: the operation whose guard timer fired is not
\* cancelled; it resolves or rejects later, into a race that is settled
OrphanSettles(r) ==
  /\ \E e \in run[r].expired :
       /\ e.attempt \notin run[r].settled
       /\ run' = [run EXCEPT ![r].settled = @ \cup {e.attempt}]
  /\ UNCHANGED <<context, retryPolicy, operationTimeout, metrics, now,
                 cachesAvailable, cacheStore, listeners, started,
                 calc, classified, simple, ai, page, audit>>

\* ------------------------------------------------------------------------
\* Configuration and ledger operations
\* ------------------------------------------------------------------------
Active(r) == run[r].pc \notin {"idle", "done"}

\* OrchestratorV2.setRetryPolicy: the policy it stores
setRetryPolicy(policy) == Spread(retryPolicy, policy)

\* OrchestratorV2.setRetryPolicy
SetRetryPolicy(policy) ==
  /\ retryPolicy' = setRetryPolicy(policy)
  /\ UNCHANGED <<context, operationTimeout, metrics, now, run,
                 cachesAvailable, cacheStore, listeners, started, calc,
                 classified, simple, ai, page, audit>>

\* OrchestratorV2.setOperationTimeout
SetOperationTimeout(ms) ==
  /\ operationTimeout' = ms
  /\ UNCHANGED <<context, retryPolicy, metrics, now, run,
                 cachesAvailable, cacheStore, listeners, started, calc,
                 classified, simple, ai, page, audit>>

\* variant: the elapsed time is not reset
ClearContextKeepsTime ==
  /\ context' = <<>>
  /\ metrics' = [metrics EXCEPT !.totalAttempts = 0, !.successfulAttempts = 0]
  /\ UNCHANGED <<retryPolicy, operationTimeout, now, run, cachesAvailable,
                 cacheStore, listeners, started, calc, classified, simple, ai, page, audit>>

\* OrchestratorV2.clearContext
ClearContext ==
  /\ context' = <<>>
  /\ metrics' = [totalAttempts |-> 0, successfulAttempts |-> 0, totalTimeMs |-> 0]
  /\ UNCHANGED <<retryPolicy, operationTimeout, now, run, cachesAvailable,
                 cacheStore, listeners, started, calc, classified, simple, ai, page, audit>>

\* JavaScript number division, the quotient kept as a fraction: 0 / 0 is
\* NaN, x / 0 is Infinity, and both keep their zero denominator
Divide(num, den) == [num |-> num, den |-> den]

IsFiniteNumber(q) == q.den # 0

\* q * k for a result q of Divide
Times(q, k) ==
  IF IsFiniteNumber(q) THEN [q EXCEPT !.num = @ * k] ELSE q

\* OrchestratorV2.getMetrics
getMetrics ==
  [totalAttempts |-> metrics.totalAttempts,
   successfulAttempts |-> metrics.successfulAttempts,
   totalTimeMs |-> metrics.totalTimeMs,
   successRate |->
     Times(Divide(metrics.successfulAttempts, metrics.totalAttempts), 100),
   avgTimePerAttemptMs |-> Divide(metrics.totalTimeMs, metrics.totalAttempts)]

\* OrchestratorV2.getContext
getContext == context

\* variant: the key of the oldest success record
getLastCacheKeyOldest ==
  LET successful == SelectSeq(context, LAMBDA c : c.success) IN
  IF Len(successful) > 0 THEN successful[1].cacheKey ELSE Null

\* OrchestratorV2.getLastCacheKey
getLastCacheKey ==
  LET successful == SelectSeq(context, LAMBDA c : c.success) IN
  IF Len(successful) > 0 THEN successful[Len(successful)].cacheKey ELSE Null

\* the clock advances; it is started by the first call, and time that passes
\* while no call is in progress is not counted
Tick ==
  /\ now < MaxTime
  /\ \E r \in Runs : Active(r)
  /\ now' = now + 1
  /\ UNCHANGED <<context, retryPolicy, operationTimeout, metrics, run,
                 cachesAvailable, cacheStore, listeners, started,
                 calc, classified, simple, ai, page, audit>>

\* ------------------------------------------------------------------------
\* Spec: one runFlow call on a configured orchestrator; clearContext is
\* called before or after it
\* ------------------------------------------------------------------------
Caller == 1

Quiescent == \A r \in Runs : ~Active(r)

Next ==
  \/ (run[Caller].pc = "idle" /\ StartRun(Caller))
  \/ CaptureResolves(Caller)
  \/ CacheOpenResolves(Caller)
  \/ CacheOpenRejects(Caller)
  \/ CachePutResolves(Caller)
  \/ CachePutRejects(Caller)
  \/ MediaResolves(Caller)
  \/ MediaRejects(Caller)
  \/ GuardTimeout(Caller)
  \/ WaitDone(Caller)
  \/ (Quiescent /\ ClearContext)
  \/ Tick

Spec == Init /\ [][Next]_vars

\* ------------------------------------------------------------------------
\* SpecDelay: the backoff calculator on its own.  A policy is configured by
\* setRetryPolicy, then calculateDelay is applied to the attempt indices
\* 1, 2, ... under that policy, with every value of Math.random().
\* ------------------------------------------------------------------------
DelayArguments ==
  { [initialDelayMs |-> i, maxDelayMs |-> m, backoffMultiplier |-> k] :
      i \in 0..MaxInitialDelay, m \in 0..MaxMaxDelay, k \in 1..MaxMultiplier }

InitDelay ==
  /\ InitOrch
  /\ retryPolicy = DefaultRetryPolicy
  /\ operationTimeout = DefaultOperationTimeout
  /\ calc = InitCalc
  /\ classified = InitClassified
  /\ ai = InitAI
  /\ page = InitPage
  /\ audit = InitAudit
  /\ simple = InitSimple

\* setRetryPolicy(policy); the delays computed so far are forgotten
Configure ==
  /\ \E policy \in DelayArguments : retryPolicy' = setRetryPolicy(policy)
  /\ calc' = InitCalc
  /\ UNCHANGED <<context, operationTimeout, metrics, now, run,
                 cachesAvailable, cacheStore, listeners, started, classified, simple, ai, page, audit>>

\* calculateDelay(attempt) for the next attempt index
CalcDelay ==
  /\ calc.attempt < MaxAttemptIdx
  /\ \E u \in 0..(RandDen - 1) :
       calc' = [attempt |-> calc.attempt + 1,
                u |-> u,
                bases |-> Append(calc.bases,
                                 exponentialDelay(retryPolicy, calc.attempt + 1)),
                delay |-> calculateDelay(retryPolicy, calc.attempt + 1, u)]
  /\ UNCHANGED <<orchVars, classified, simple, ai, page, audit>>

NextDelay == Configure \/ CalcDelay

SpecDelay == InitDelay /\ [][NextDelay]_vars

\* ------------------------------------------------------------------------
\* SpecClassify: the error classifier on its own.  isRetryableError and the
\* give-up test of the catch block are applied to error descriptions that
\* carry a marker in another letter case, carry part of a marker, or carry
\* none, with filler text before and after.
\* ------------------------------------------------------------------------
\* k filler characters
Filler(k) == [i \in 1..k |-> "x"]

\* the markers as written in the source, the messages of the model's
\* runs, then markers in another letter case, parts of markers, and
\* descriptions without a marker
DescriptionCores ==
  { PatTimeout, PatNetwork, PatFailedToStartDevice, PatNotFoundError,
    PatTemporary,
    MsgBlobNull, MsgNoStream, MsgNetworkError, MsgPermissionDenied,
    MsgInvalidState, TimeoutError(1),
    \* "TIMEOUT"
    <<"T","I","M","E","O","U","T">>,
    \* "Request TimeOut"
    <<"R","e","q","u","e","s","t"," ","T","i","m","e","O","u","t">>,
    \* "NETWORK"
    <<"N","E","T","W","O","R","K">>,
    \* "NetworkError when attempting to fetch"
    <<"N","e","t","w","o","r","k","E","r","r","o","r"," ","w","h","e","n"," ",
      "a","t","t","e","m","p","t","i","n","g"," ","t","o"," ","f","e","t","c",
      "h">>,
    \* "failed_to_start_device"
    <<"f","a","i","l","e","d","_","t","o","_","s","t","a","r","t","_","d","e",
      "v","i","c","e">>,
    \* "Failed_To_Start_Device"
    <<"F","a","i","l","e","d","_","T","o","_","S","t","a","r","t","_","D","e",
      "v","i","c","e">>,
    \* "notfounderror"
    <<"n","o","t","f","o","u","n","d","e","r","r","o","r">>,
    \* "NOTFOUNDERROR"
    <<"N","O","T","F","O","U","N","D","E","R","R","O","R">>,
    \* "TEMPORARY"
    <<"T","E","M","P","O","R","A","R","Y">>,
    \* "Temporary failure"
    <<"T","e","m","p","o","r","a","r","y"," ","f","a","i","l","u","r","e">>,
    \* "time out"
    <<"t","i","m","e"," ","o","u","t">>,
    \* "timeou"
    <<"t","i","m","e","o","u">>,
    \* "netwrk"
    <<"n","e","t","w","r","k">>,
    \* "FAILED_TO_START"
    <<"F","A","I","L","E","D","_","T","O","_","S","T","A","R","T">>,
    \* "FAILED TO START DEVICE"
    <<"F","A","I","L","E","D"," ","T","O"," ","S","T","A","R","T"," ","D","E",
      "V","I","C","E">>,
    \* "NotFound"
    <<"N","o","t","F","o","u","n","d">>,
    \* "Not Found Error"
    <<"N","o","t"," ","F","o","u","n","d"," ","E","r","r","o","r">>,
    \* "temporar"
    <<"t","e","m","p","o","r","a","r">>,
    \* "temporal"
    <<"t","e","m","p","o","r","a","l">>,
    \* "NotAllowedError"
    <<"N","o","t","A","l","l","o","w","e","d","E","r","r","o","r">>,
    \* "AbortError"
    <<"A","b","o","r","t","E","r","r","o","r">> }

Descriptions ==
  { Filler(a) \o core \o Filler(b) :
      a \in 0..MaxPad, b \in 0..MaxPad, core \in DescriptionCores }

InitClassify ==
  /\ InitOrch
  /\ retryPolicy = DefaultRetryPolicy
  /\ operationTimeout = DefaultOperationTimeout
  /\ calc = InitCalc
  /\ classified = InitClassified
  /\ ai = InitAI
  /\ page = InitPage
  /\ audit = InitAudit
  /\ simple = InitSimple

\* lines 162 and 166 applied to one error description
Classify ==
  /\ \E errorMsg \in Descriptions :
       classified' = [applied |-> TRUE,
                      errorMsg |-> errorMsg,
                      retryable |-> isRetryableError(errorMsg),
                      breaks |-> ShouldBreak(errorMsg)]
  /\ UNCHANGED <<orchVars, calc, simple, ai, page, audit>>

NextClassify == Classify

SpecClassify == InitClassify /\ [][NextClassify]_vars

\* ------------------------------------------------------------------------
\* SpecRuns: runFlow is called MaxRunCalls times, one call after the other,
\* and clearContext is called between calls.  The Cache API is absent, the
\* capture always yields a blob, and getDisplayMedia either yields a stream
\* that is cloned, or rejects; no guard timer fires.
\* ------------------------------------------------------------------------
\* the policy configured by setRetryPolicy before the calls
RunsPolicy ==
  [maxRetries |-> 2, initialDelayMs |-> 0, maxDelayMs |-> 0,
   backoffMultiplier |-> 2]

InitRuns ==
  /\ InitOrch
  /\ ~cachesAvailable
  /\ retryPolicy = Spread(DefaultRetryPolicy, RunsPolicy)
  /\ operationTimeout = DefaultOperationTimeout
  /\ calc = InitCalc
  /\ classified = InitClassified
  /\ ai = InitAI
  /\ page = InitPage
  /\ audit = InitAudit
  /\ simple = InitSimple

NextRuns ==
  \/ (Quiescent /\ started < MaxRunCalls /\ StartRun(Caller))
  \/ (CaptureResolves(Caller) /\ run'[Caller].blob = "Blob")
  \/ (MediaResolves(Caller) /\ listeners' = listeners + 1)
  \/ MediaRejects(Caller)
  \/ WaitDone(Caller)
  \/ (Quiescent /\ ClearContext)
  \/ Tick

SpecRuns == InitRuns /\ [][NextRuns]_vars

\* ------------------------------------------------------------------------
\* SpecConfig: one runFlow call, and setRetryPolicy and setOperationTimeout
\* called while it is in progress (while it awaits a collaborator or the
\* backoff timer).  The Cache API is absent and the capture always yields a
\* blob.
\* ------------------------------------------------------------------------
\* arguments of the setRetryPolicy calls: a new budget, or new delays
ConfigArguments ==
  { [maxRetries |-> n] : n \in 1..MaxRetriesBound }
    \cup { [initialDelayMs |-> 1, maxDelayMs |-> 1] }

NextConfig ==
  \/ (run[Caller].pc = "idle" /\ StartRun(Caller))
  \/ (CaptureResolves(Caller) /\ run'[Caller].blob = "Blob")
  \/ (MediaResolves(Caller) /\ listeners' = listeners + 1)
  \/ MediaRejects(Caller)
  \/ GuardTimeout(Caller)
  \/ WaitDone(Caller)
  \/ (Active(Caller) /\ \E policy \in ConfigArguments : SetRetryPolicy(policy))
  \/ (Active(Caller) /\ \E ms \in ConfiguredTimeouts : SetOperationTimeout(ms))
  \/ Tick

SpecConfig == InitRuns /\ [][NextConfig]_vars

\* ------------------------------------------------------------------------
\* SpecConcurrent: two runFlow calls in progress on the one instance; the
\* steps of the two calls interleave at their awaits.  The Cache API is
\* absent and the capture always yields a blob.
\* ------------------------------------------------------------------------
NextConcurrent ==
  \/ \E r \in Runs : (run[r].pc = "idle" /\ StartRun(r))
  \/ \E r \in Runs : (CaptureResolves(r) /\ run'[r].blob = "Blob")
  \/ \E r \in Runs : (MediaResolves(r) /\ listeners' = listeners + 1)
  \/ \E r \in Runs : MediaRejects(r)
  \/ \E r \in Runs : WaitDone(r)
  \/ Tick

SpecConcurrent == InitRuns /\ [][NextConcurrent]_vars

\* ------------------------------------------------------------------------
\* SpecClear: runFlow calls one after the other, with clearContext called
\* at any moment, between two calls or while a call is waiting.
\* ------------------------------------------------------------------------
NextClear ==
  \/ (Quiescent /\ started < MaxRunCalls /\ StartRun(Caller))
  \/ (CaptureResolves(Caller) /\ run'[Caller].blob = "Blob")
  \/ (MediaResolves(Caller) /\ listeners' = listeners + 1)
  \/ MediaRejects(Caller)
  \/ WaitDone(Caller)
  \/ ClearContext
  \/ Tick

SpecClear == InitRuns /\ [][NextClear]_vars

\* ------------------------------------------------------------------------
\* SpecBudget: runFlow calls one after the other, with setRetryPolicy called
\* between them with a maxRetries of zero, below zero or above.
\* ------------------------------------------------------------------------
BudgetArguments == { [maxRetries |-> n] : n \in {0 - 1, 0, 1} }

NextBudget ==
  \/ (Quiescent /\ started < MaxRunCalls /\ StartRun(Caller))
  \/ (CaptureResolves(Caller) /\ run'[Caller].blob = "Blob")
  \/ (MediaResolves(Caller) /\ listeners' = listeners + 1)
  \/ MediaRejects(Caller)
  \/ WaitDone(Caller)
  \/ (Quiescent /\ \E policy \in BudgetArguments : SetRetryPolicy(policy))
  \/ Tick

SpecBudget == InitRuns /\ [][NextBudget]_vars

\* ------------------------------------------------------------------------
\* SpecKeys: runFlow calls one after the other on a page whose user presses
\* keys; each keydown event runs the handlers cloneAndMimic attached.  The
\* calls take no time.
\* ------------------------------------------------------------------------
Keys == {"Enter", " ", "a"}

\* variant: only one of the attached handlers runs
keydownHandlersOnce(n, key, active) ==
  IF key \in {"Enter", " "} /\ active THEN Min(n, 1) ELSE 0

\* CloneStreamModule.ts, lines 33-47: the number of attached handlers that
\* log the action and click the active element on a keydown event
keydownHandlers(n, key, active) ==
  IF key \in {"Enter", " "} /\ active THEN n ELSE 0

\* lines 77-86: logAction called k more times for the key
RECURSIVE logAction(_, _, _)
logAction(logs, key, k) ==
  IF k = 0 THEN logs
  ELSE logAction(Append(logs, [action |-> "keyboard_click", key |-> key]),
                 key, k - 1)

\* a keydown event on the document, with or without an active element
KeyDown(key, active) ==
  /\ page.keys < MaxKeyPresses
  /\ LET k == keydownHandlers(listeners, key, active) IN
     page' = [actionLogs |-> logAction(page.actionLogs, key, k),
              clicks |-> page.clicks + k,
              keys |-> page.keys + 1]
  /\ UNCHANGED <<orchVars, calc, classified, simple, ai, audit>>

NextKeys ==
  \/ (Quiescent /\ started < MaxRunCalls /\ StartRun(Caller))
  \/ (CaptureResolves(Caller) /\ run'[Caller].blob = "Blob")
  \/ (MediaResolves(Caller) /\ listeners' = listeners + 1)
  \/ MediaRejects(Caller)
  \/ WaitDone(Caller)
  \/ \E key \in Keys : \E active \in BOOLEAN : KeyDown(key, active)

SpecKeys == InitRuns /\ [][NextKeys]_vars

\* ---------------------------------------------------------------------
\* KeyboardNavigation.ts, class SecurityCompliance: the audit log
\* ---------------------------------------------------------------------

\* KeyboardNavigation.ts line 186
MAX_AUDIT_ENTRIES == 10000

\* the operations called on one SecurityCompliance instance
MaxAuditOps == 2

\* logAudit, lines 261-267: the entry built for a call; serial is the
\* number of the call among all logAudit calls of the instance
AuditEntry(serial, action, result) ==
  [serial |-> serial, action |-> action, result |-> result]

\* a variant of the trimming that keeps the oldest entries
trimKeepsOldest(log) ==
  IF Len(log) > MAX_AUDIT_ENTRIES
  THEN SubSeq(log, 1, MAX_AUDIT_ENTRIES)
  ELSE log

\* logAudit, lines 272-274: slice(-MAX_AUDIT_ENTRIES) once the bound is passed
trim(log) ==
  IF Len(log) > MAX_AUDIT_ENTRIES
  THEN SubSeq(log, Len(log) - MAX_AUDIT_ENTRIES + 1, Len(log))
  ELSE log

\* logAudit, lines 256-282: push the entry, trim; a failure to persist the
\* log in localStorage is swallowed
logAudit(a, action, result) ==
  [a EXCEPT !.auditLog = trim(Append(@, AuditEntry(a.logged + 1, action, result))),
            !.logged = @ + 1,
            !.sinceClear = @ + 1]

\* a direct call of logAudit
LogAudit(action, result) ==
  /\ audit.ops < MaxAuditOps
  /\ audit' = [logAudit(audit, action, result) EXCEPT !.ops = @ + 1]
  /\ UNCHANGED <<orchVars, calc, classified, simple, ai, page>>

\* storeCredentialsSecurely, lines 192-211: success, or failure when
\* btoa or localStorage.setItem throws
storeCredentialsSecurely(result) ==
  /\ result \in {"success", "failure"}
  /\ LogAudit("credential_stored", result)

\* retrieveCredentialsSecurely, lines 216-234: nothing is logged when no
\* credentials are stored under the key
retrieveCredentialsSecurely(stored, result) ==
  IF stored
  THEN LogAudit("credential_retrieved", result)
  ELSE /\ audit.ops < MaxAuditOps
       /\ result = "success"
       /\ audit' = [audit EXCEPT !.ops = @ + 1]
       /\ UNCHANGED <<orchVars, calc, classified, simple, ai, page>>

\* clearCredentials, lines 239-251
clearCredentials(result) ==
  /\ result \in {"success", "failure"}
  /\ LogAudit("credential_cleared", result)

\* verifyCorsPolicy, lines 336-340
verifyCorsPolicy(isAllowed) ==
  /\ isAllowed \in BOOLEAN
  /\ LogAudit("cors_verification", IF isAllowed THEN "success" ELSE "failure")

\* clearAuditTrail, lines 310-314: the clearing is logged, then the log is
\* replaced by an empty one
clearAuditTrail ==
  /\ audit.ops < MaxAuditOps
  /\ audit' = [logAudit(audit, "audit_trail_cleared", "success")
                 EXCEPT !.auditLog = <<>>, !.sinceClear = 0, !.ops = @ + 1]
  /\ UNCHANGED <<orchVars, calc, classified, simple, ai, page>>

\* the instance after construction, or after MAX_AUDIT_ENTRIES - 1 allowed
\* CORS verifications
InitAuditSpec ==
  /\ InitOrch
  /\ cachesAvailable
  /\ retryPolicy = DefaultRetryPolicy
  /\ operationTimeout = DefaultOperationTimeout
  /\ calc = InitCalc
  /\ classified = InitClassified
  /\ simple = InitSimple
  /\ ai = InitAI
  /\ page = InitPage
  /\ \E n \in {0, MAX_AUDIT_ENTRIES - 1} :
       audit = [auditLog |-> [k \in 1..n |->
                                AuditEntry(k, "cors_verification", "success")],
                logged |-> n, sinceClear |-> n, ops |-> 0]

NextAudit ==
  \/ \E result \in {"success", "failure"} : LogAudit("custom_action", result)
  \/ \E result \in {"success", "failure"} : storeCredentialsSecurely(result)
  \/ \E stored \in BOOLEAN : \E result \in {"success", "failure"} :
       retrieveCredentialsSecurely(stored, result)
  \/ \E result \in {"success", "failure"} : clearCredentials(result)
  \/ \E isAllowed \in BOOLEAN : verifyCorsPolicy(isAllowed)
  \/ clearAuditTrail

SpecAudit == InitAuditSpec /\ [][NextAudit]_vars

\* ------------------------------------------------------------------------
\* SpecGuard: one runFlow call under a short operation timeout, with the
\* deadline timers of withTimeout followed until they fire.  The Cache API
\* is absent.
\* ------------------------------------------------------------------------
InitGuard ==
  /\ InitOrch
  /\ ~cachesAvailable
  /\ retryPolicy = Spread(DefaultRetryPolicy, RunsPolicy)
  /\ operationTimeout \in ConfiguredTimeouts
  /\ calc = InitCalc
  /\ classified = InitClassified
  /\ ai = InitAI
  /\ page = InitPage
  /\ audit = InitAudit
  /\ simple = InitSimple

NextGuard ==
  \/ (run[Caller].pc = "idle" /\ StartRun(Caller))
  \/ CaptureResolves(Caller)
  \/ MediaResolves(Caller)
  \/ MediaRejects(Caller)
  \/ GuardTimeout(Caller)
  \/ TimerFires(Caller)
  \/ OrphanSettles(Caller)
  \/ WaitDone(Caller)
  \/ Tick

SpecGuard == InitGuard /\ [][NextGuard]_vars

\* ------------------------------------------------------------------------
\* SpecHang: one runFlow call whose collaborators may never complete.  The
\* timers fire: time passes up to the deadline of the pending guard, the
\* guard timer and the backoff timer fire when due.  No collaborator is
\* bound to complete.
\* ------------------------------------------------------------------------
InitHang ==
  /\ InitOrch
  /\ cachesAvailable
  /\ retryPolicy = Spread(DefaultRetryPolicy, RunsPolicy)
  /\ operationTimeout \in ConfiguredTimeouts
  /\ calc = InitCalc
  /\ classified = InitClassified
  /\ ai = InitAI
  /\ page = InitPage
  /\ audit = InitAudit
  /\ simple = InitSimple

\* time passes while a guarded operation is awaited, up to the deadline of
\* its guard
GuardTick(r) ==
  /\ run[r].pc \in {"capture", "media"}
  /\ now < run[r].guardStart + run[r].guardMs
  /\ now' = now + 1
  /\ UNCHANGED <<context, retryPolicy, operationTimeout, metrics, run,
                 cachesAvailable, cacheStore, listeners, started,
                 calc, classified, simple, ai, page, audit>>

NextHang ==
  \/ (run[Caller].pc = "idle" /\ StartRun(Caller))
  \/ CaptureResolves(Caller)
  \/ CacheOpenResolves(Caller)
  \/ CacheOpenRejects(Caller)
  \/ CachePutResolves(Caller)
  \/ CachePutRejects(Caller)
  \/ MediaResolves(Caller)
  \/ MediaRejects(Caller)
  \/ GuardTimeout(Caller)
  \/ WaitDone(Caller)
  \/ GuardTick(Caller)

SpecHang ==
  /\ InitHang
  /\ [][NextHang]_vars
  /\ WF_vars(GuardTick(Caller))
  /\ WF_vars(GuardTimeout(Caller))
  /\ WF_vars(WaitDone(Caller))

\* ------------------------------------------------------------------------
\* Orchestrator.ts: the orchestrator without backoff, timeout guard and
\* error classification.  SpecSimple is one or more runFlow calls, one after
\* the other, on an instance configured by setMaxRetries.
\* ------------------------------------------------------------------------
\* the error thrown at line 75
\* "Failed to capture screenshot"
MsgCaptureFailed ==
  <<"F","a","i","l","e","d"," ","t","o"," ","c","a","p","t","u","r","e"," ",
    "s","c","r","e","e","n","s","h","o","t">>

Max(a, b) == IF a >= b THEN a ELSE b

\* variant: the same delay before every attempt
SimpleDelayFixed(retries) == 1000

\* line 91: the delay of the wait before the next attempt, in ms
SimpleDelay(retries) == 1000 * retries

SimpleActive == simple.pc \notin {"idle", "done"}

\* line 44: the loop condition
SimpleLoopCondition(loc) == ~loc.success /\ loc.retries < loc.maxRetries

\* lines 44-53: either start the next attempt up to the await of the
\* capture, or leave the loop and return (lines 96-99: no value)
SimpleLoopOrExit(loc, t) ==
  IF SimpleLoopCondition(loc)
  THEN simple' = [loc EXCEPT !.pc = "capture",
                             !.retries = @ + 1,
                             !.timestamp = t,
                             !.cacheKey = CacheKey(t),
                             !.steps = <<>>,
                             !.blob = Undefined,
                             !.waitStart = 0,
                             !.delayMs = 0]
  ELSE simple' = [loc EXCEPT !.pc = "done", !.result = Undefined,
                             !.waitStart = 0, !.delayMs = 0]

\* lines 37-42, then the loop
SimpleStartRun ==
  /\ simple.pc \in {"idle", "done"}
  /\ SimpleLoopOrExit([simple EXCEPT !.retries = 0, !.success = FALSE,
                                     !.own = <<>>, !.waits = 0,
                                     !.result = Undefined], now)
  /\ UNCHANGED <<orchVars, calc, classified, ai, page, audit>>

\* lines 77-93: the catch block
SimpleCatch(errorMsg) ==
  LET rec == [attempt |-> simple.retries, timestamp |-> simple.timestamp,
              steps |-> <<StepWith("Error: ", errorMsg)>>,
              cacheKey |-> simple.cacheKey, success |-> FALSE]
      loc == [simple EXCEPT !.context = Append(@, rec),
                            !.own = Append(@, rec)]
  IN  IF loc.retries < loc.maxRetries
      THEN simple' = [loc EXCEPT !.pc = "wait", !.waitStart = now,
                                 !.delayMs = SimpleDelay(loc.retries),
                                 !.waits = @ + 1]
      ELSE SimpleLoopOrExit(loc, now)

\* line 91: the timer fires, at its deadline at the earliest
SimpleWaitDone ==
  /\ simple.pc = "wait"
  /\ now' = Max(now, simple.waitStart + simple.delayMs)
  /\ SimpleLoopOrExit(simple, now')
  /\ UNCHANGED <<context, retryPolicy, operationTimeout, metrics, run,
                 cachesAvailable, cacheStore, listeners, started, calc,
                 classified, ai, page, audit>>

\* lines 53-57 and 104-108: captureWithSteps returns
SimpleCaptureResolves ==
  /\ simple.pc = "capture"
  /\ \E res \in captureWithSteps :
       IF res.blob = Null
       THEN SimpleCatch(MsgCaptureFailed)
       ELSE simple' = [simple EXCEPT !.blob = res.blob, !.steps = res.steps,
                                     !.pc = IF cachesAvailable
                                            THEN "cacheOpen" ELSE "media"]
  /\ UNCHANGED <<orchVars, calc, classified, ai, page, audit>>

\* line 111: caches.open resolves
SimpleCacheOpenResolves ==
  /\ simple.pc = "cacheOpen"
  /\ simple' = [simple EXCEPT !.pc = "cachePut"]
  /\ UNCHANGED <<orchVars, calc, classified, ai, page, audit>>

\* lines 111 and 120-122: caches.open rejects
SimpleCacheOpenRejects ==
  /\ simple.pc = "cacheOpen"
  /\ simple' = [simple EXCEPT !.pc = "media"]
  /\ UNCHANGED <<orchVars, calc, classified, ai, page, audit>>

\* lines 118-119: cache.put resolves
SimpleCachePutResolves ==
  /\ simple.pc = "cachePut"
  /\ cacheStore' = cacheStore \cup {simple.cacheKey}
  /\ simple' = [simple EXCEPT !.pc = "media"]
  /\ UNCHANGED <<context, retryPolicy, operationTimeout, metrics, now, run,
                 cachesAvailable, listeners, started, calc, classified, ai, page, audit>>

\* lines 118 and 120-122: cache.put rejects
SimpleCachePutRejects ==
  /\ simple.pc = "cachePut"
  /\ simple' = [simple EXCEPT !.pc = "media"]
  /\ UNCHANGED <<orchVars, calc, classified, ai, page, audit>>

\* lines 60-73: getDisplayMedia resolves, then cloneAndMimic
SimpleMediaResolves ==
  /\ simple.pc = "media"
  /\ \/ /\ \E e \in CloneErrors : SimpleCatch(e)
        /\ UNCHANGED listeners
     \/ LET rec == [attempt |-> simple.retries,
                    timestamp |-> simple.timestamp,
                    steps |-> simple.steps,
                    cacheKey |-> simple.cacheKey, success |-> TRUE]
        IN  /\ listeners' = listeners + 1
            /\ SimpleLoopOrExit([simple EXCEPT !.context = Append(@, rec),
                                               !.own = Append(@, rec),
                                               !.success = TRUE], now)
  /\ UNCHANGED <<context, retryPolicy, operationTimeout, metrics, now, run,
                 cachesAvailable, cacheStore, started, calc, classified, ai, page, audit>>

\* line 60: getDisplayMedia rejects
SimpleMediaRejects ==
  /\ simple.pc = "media"
  /\ \E e \in EnvErrors : SimpleCatch(e)
  /\ UNCHANGED <<orchVars, calc, classified, ai, page, audit>>

\* Orchestrator.clearContext
SimpleClearContext ==
  /\ simple' = [simple EXCEPT !.context = <<>>]
  /\ UNCHANGED <<orchVars, calc, classified, ai, page, audit>>

\* Orchestrator.getContext
SimpleGetContext == simple.context

\* Orchestrator.getLastCacheKey
SimpleGetLastCacheKey ==
  LET successful == SelectSeq(simple.context, LAMBDA c : c.success) IN
  IF Len(successful) > 0 THEN successful[Len(successful)].cacheKey ELSE Null

\* time passes while a collaborator is awaited, at most MaxTime ms in one
\* attempt
SimpleTick ==
  /\ simple.pc \in {"capture", "cacheOpen", "cachePut", "media"}
  /\ now - simple.timestamp < MaxTime
  /\ now' = now + 1
  /\ UNCHANGED <<context, retryPolicy, operationTimeout, metrics, run,
                 cachesAvailable, cacheStore, listeners, started, calc,
                 classified, simple, ai, page, audit>>

\* the instance after construction, or after construction and setMaxRetries
InitSimpleSpec ==
  /\ InitOrch
  /\ retryPolicy = DefaultRetryPolicy
  /\ operationTimeout = DefaultOperationTimeout
  /\ calc = InitCalc
  /\ classified = InitClassified
  /\ ai = InitAI
  /\ page = InitPage
  /\ audit = InitAudit
  /\ \E n \in 1..MaxRetriesBound : simple = [InitSimple EXCEPT !.maxRetries = n]

NextSimple ==
  \/ (simple.pc = "idle" /\ SimpleStartRun)
  \/ SimpleCaptureResolves
  \/ SimpleCacheOpenResolves
  \/ SimpleCacheOpenRejects
  \/ SimpleCachePutResolves
  \/ SimpleCachePutRejects
  \/ SimpleMediaResolves
  \/ SimpleMediaRejects
  \/ SimpleWaitDone
  \/ (~SimpleActive /\ SimpleClearContext)
  \/ SimpleTick

SpecSimple == InitSimpleSpec /\ [][NextSimple]_vars

\* ------------------------------------------------------------------------
\* ai-orchestrator.ts: AIOrchestrator.executeTask over an OpenAIAdapter
\* ------------------------------------------------------------------------
MsgTaskTimeout == "Task execution timeout"

\* String(error) of what parseWorkflowDescription, analyzeContext and
\* suggestErrorResolution throw (part_003, lines 59, 95, 124)
MsgParseFailed == "Error: Failed to parse workflow description"
MsgAnalysisFailed == "Error: OpenAI analysis failed"
MsgSuggestFailed == "Error: Failed to suggest resolution"

\* the actions an AIDecision may carry
Decisions == {"click", "input"}

Tasks ==
  [maxSteps : 0..MaxTaskSteps, timeout : 0..MaxTaskTimeout]

\* createFailureResult, lines 158-171
createFailureResult(steps, status, error) ==
  [status |-> status, steps |-> steps, finalDecision |-> Null,
   error |-> error]

\* variant: the conversation history survives the return
AIReturnKeepsHistory(loc, res) ==
  ai' = [loc EXCEPT !.pc = "done", !.result = res, !.returnedAt = now]

\* a return of executeTask; the finally block clears the conversation
\* history of the adapter (lines 132-134)
AIReturn(loc, res) ==
  ai' = [loc EXCEPT !.pc = "done", !.result = res, !.returnedAt = now,
                    !.conversation = 0]

\* variant: the deadline itself counts as a timeout
AITimedOutInclusive(loc) == now - loc.startTime >= loc.task.timeout

\* line 64: Date.now() - startTime > task.timeout
AITimedOut(loc) == now - loc.startTime > loc.task.timeout

\* lines 62-83: the loop condition, the timeout check, then the step up to
\* the await inside analyzeContext, which has pushed the user prompt onto
\* the conversation history (part_003, lines 45-50); after the loop, the
\* success result (lines 122-128)
AILoop(loc) ==
  IF loc.i < Min(loc.workflowSteps, loc.task.maxSteps)
  THEN IF AITimedOut(loc)
       THEN AIReturn(loc, createFailureResult(loc.steps, "timeout",
                                              MsgTaskTimeout))
       ELSE ai' = [loc EXCEPT !.pc = "analyze", !.stepStart = now,
                              !.stepError = Undefined,
                              !.conversation = @ + 1]
  ELSE AIReturn(loc, [status |-> "success", steps |-> loc.steps,
                      finalDecision |-> loc.currentDecision,
                      error |-> Undefined])

\* lines 45-58: executeTask up to the await of parseWorkflowDescription
ExecuteTask(task) ==
  /\ ai.pc \in {"idle", "done"}
  /\ ai.calls < MaxTaskCalls
  /\ ai' = [ai EXCEPT !.pc = "parse", !.task = task, !.startTime = now,
                      !.steps = <<>>, !.currentDecision = Null,
                      !.workflowSteps = 0, !.i = 0,
                      !.stepError = Undefined, !.stepStart = 0,
                      !.result = Undefined, !.returnedAt = 0,
                      !.calls = @ + 1]
  /\ UNCHANGED <<orchVars, calc, classified, simple, page, audit>>

\* lines 56-62: parseWorkflowDescription resolves with n steps
ParseResolves(n) ==
  /\ ai.pc = "parse"
  /\ AILoop([ai EXCEPT !.workflowSteps = n])
  /\ UNCHANGED <<orchVars, calc, classified, simple, page, audit>>

\* lines 129-131: parseWorkflowDescription rejects, the outer catch
ParseRejects ==
  /\ ai.pc = "parse"
  /\ AIReturn(ai, createFailureResult(ai.steps, "failed", MsgParseFailed))
  /\ UNCHANGED <<orchVars, calc, classified, simple, page, audit>>

\* lines 82-96 and part_003, lines 50-57: callOpenAI resolves with a
\* response that parses, the assistant's answer is pushed onto the
\* conversation history, the step is executed and recorded
AnalyzeResolves(decision) ==
  /\ ai.pc = "analyze"
  /\ LET rec == [stepNumber |-> ai.i + 1, action |-> ai.i + 1,
                 decision |-> decision, timestamp |-> now]
     IN  AILoop([ai EXCEPT !.currentDecision = decision,
                           !.steps = Append(@, rec),
                           !.conversation = @ + 1,
                           !.i = @ + 1])
  /\ UNCHANGED <<orchVars, calc, classified, simple, page, audit>>

\* lines 97-112 and part_003, lines 50-59: callOpenAI rejects, or resolves
\* with a response that does not parse; the step's catch block awaits
\* suggestErrorResolution
AnalyzeRejects ==
  /\ ai.pc = "analyze"
  /\ \E pushed \in {0, 1} :
       ai' = [ai EXCEPT !.pc = "suggest", !.stepError = MsgAnalysisFailed,
                        !.conversation = @ + pushed]
  /\ UNCHANGED <<orchVars, calc, classified, simple, page, audit>>

\* lines 113-119: suggestErrorResolution resolves
SuggestResolves ==
  /\ ai.pc = "suggest"
  /\ IF ai.i = ai.workflowSteps - 1
     THEN AIReturn(ai, createFailureResult(ai.steps, "failed", ai.stepError))
     ELSE AILoop([ai EXCEPT !.i = @ + 1])
  /\ UNCHANGED <<orchVars, calc, classified, simple, page, audit>>

\* lines 108-111 and 129-131: suggestErrorResolution rejects inside the
\* step's catch block, the outer catch
SuggestRejects ==
  /\ ai.pc = "suggest"
  /\ AIReturn(ai, createFailureResult(ai.steps, "failed", MsgSuggestFailed))
  /\ UNCHANGED <<orchVars, calc, classified, simple, page, audit>>

\* AIOrchestrator.getExecutionHistory
getExecutionHistory == ai.executionHistory

\* AIOrchestrator.clearExecutionHistory
clearExecutionHistory ==
  /\ ai' = [ai EXCEPT !.executionHistory = <<>>]
  /\ UNCHANGED <<orchVars, calc, classified, simple, page, audit>>

\* time passes while the adapter is awaited, up to one ms past the timeout
\* of the task
AITick ==
  /\ ai.pc \in {"parse", "analyze", "suggest"}
  /\ now - ai.startTime <= ai.task.timeout
  /\ now' = now + 1
  /\ UNCHANGED <<context, retryPolicy, operationTimeout, metrics, run,
                 cachesAvailable, cacheStore, listeners, started, calc,
                 classified, simple, ai, page, audit>>

InitAISpec ==
  /\ InitOrch
  /\ retryPolicy = DefaultRetryPolicy
  /\ operationTimeout = DefaultOperationTimeout
  /\ calc = InitCalc
  /\ classified = InitClassified
  /\ simple = InitSimple
  /\ ai = InitAI
  /\ page = InitPage
  /\ audit = InitAudit

NextAI ==
  \/ \E task \in Tasks : ExecuteTask(task)
  \/ \E n \in 0..MaxWorkflowSteps : ParseResolves(n)
  \/ ParseRejects
  \/ \E decision \in Decisions : AnalyzeResolves(decision)
  \/ AnalyzeRejects
  \/ SuggestResolves
  \/ SuggestRejects
  \/ (ai.pc = "done" /\ clearExecutionHistory)
  \/ AITick

SpecAI == InitAISpec /\ [][NextAI]_vars

\* ------------------------------------------------------------------------
\* Properties of a runFlow call (Spec)
\* ------------------------------------------------------------------------
Last(seq) == seq[Len(seq)]

Failed(rec) == ~rec.success
FailedRetryably(rec) == ~rec.success /\ isRetryableError(rec.error)
FailedFatally(rec) == ~rec.success /\ ~isRetryableError(rec.error)

\* C1 - Exhaustion: with maxRetries = N >= 1, a call all of whose attempts
\* failed with a retryable error has performed exactly N attempts, has
\* appended exactly N records, none of them a success, and returned false.
C1_Exhaustion ==
  LET r == run[Caller]
      N == retryPolicy.maxRetries
  IN  (/\ r.pc = "done"
       /\ N >= 1
       /\ \A i \in 1..Len(r.own) : FailedRetryably(r.own[i]))
      => (/\ r.retries = N
          /\ Len(r.own) = N
          /\ \A i \in 1..Len(r.own) : ~r.own[i].success
          /\ r.result = FALSE)

C1_Witness ==
  LET r == run[Caller] IN
  /\ r.pc = "done"
  /\ retryPolicy.maxRetries = 3
  /\ Len(r.own) = 3
  /\ \A i \in 1..3 : FailedRetryably(r.own[i])
  /\ r.result = FALSE

\* C2 - Fatal short-circuit: with maxRetries > 1, once the first attempt has
\* failed with an error that is not retryable, the call has returned false
\* with exactly one record, one attempt and no backoff wait.
C2_FatalShortCircuit ==
  LET r == run[Caller] IN
  (/\ retryPolicy.maxRetries > 1
   /\ Len(r.own) >= 1
   /\ FailedFatally(r.own[1]))
  => (/\ r.pc = "done"
      /\ r.result = FALSE
      /\ Len(r.own) = 1
      /\ r.retries = 1
      /\ r.waits = 0)

C2_Witness ==
  LET r == run[Caller] IN
  /\ retryPolicy.maxRetries = 3
  /\ r.pc = "done"
  /\ Len(r.own) = 1
  /\ FailedFatally(r.own[1])
  /\ r.own[1].error = MsgPermissionDenied

\* C3 - Success halts retries: when attempt k+1 succeeds after k failed
\* attempts, the call has appended exactly k+1 records, the first k are
\* failures, no attempt follows the success, and the call has returned true.
C3_SuccessHalts ==
  LET r == run[Caller] IN
  \A i \in 1..Len(r.own) :
    r.own[i].success
    => (/\ Len(r.own) = i
        /\ \A j \in 1..(i - 1) : Failed(r.own[j])
        /\ r.retries = i
        /\ r.pc = "done"
        /\ r.result = TRUE)

C3_Witness ==
  LET r == run[Caller] IN
  /\ Len(r.own) = 3
  /\ Failed(r.own[1]) /\ r.own[1].error = MsgNetworkError
  /\ Failed(r.own[2]) /\ r.own[2].error = MsgNetworkError
  /\ r.own[3].success
  /\ r.result = TRUE

CacheFailures == {"unavailable", "open failed", "put failed"}

\* the steps of a call that pass through cacheScreenshot or follow a failed
\* caching
C4_Step ==
  LET r == run[Caller]
      q == run'[Caller]
  IN  /\ (r.pc = "capture" /\ ~cachesAvailable /\ q.blob = "Blob")
           => (q.pc = "media" /\ q.own = r.own /\ q.cached = "unavailable")
      /\ (r.pc \in {"cacheOpen", "cachePut"} /\ q # r)
           => (q.pc \in {"cachePut", "media"} /\ q.own = r.own)
      /\ (r.pc = "media" /\ r.cached \in CacheFailures /\ listeners' = listeners + 1)
           => (/\ Len(q.own) = Len(r.own) + 1
               /\ Last(q.own).success
               /\ q.pc = "done"
               /\ q.result = TRUE)

\* C4 - Cache failures never affect the outcome: a step of cacheScreenshot,
\* with the Cache Store absent or rejecting, never ends the attempt and never
\* appends a record; and when the stream is then acquired and cloned, the
\* attempt is recorded as a success and the call returns true.
C4_CacheFailureInvisible == [][C4_Step]_vars

C4_Witness ==
  LET r == run[Caller] IN
  /\ r.pc = "done"
  /\ r.result = TRUE
  /\ r.cached = "put failed"
  /\ r.cacheKey \notin cacheStore
  /\ Last(r.own).success

IsZero(q) == IsFiniteNumber(q) /\ q.num = 0

\* C5 - Metrics on an empty history: with no record and no attempt counted,
\* getMetrics reports success rate 0 and average duration 0.
C5_EmptyMetricsZero ==
  (context = <<>> /\ metrics.totalAttempts = 0)
  => (IsZero(getMetrics.successRate) /\ IsZero(getMetrics.avgTimePerAttemptMs))

\* C6 - Empty artifact is retryable: after an attempt that failed because the
\* capture returned no blob, while attempts remain, the call is waiting for
\* the backoff delay or has gone on to a later attempt.
C6_EmptyArtifactRetryable ==
  LET r == run[Caller] IN
  \A i \in 1..Len(r.own) :
    (/\ Failed(r.own[i])
     /\ r.own[i].error = MsgBlobNull
     /\ i < retryPolicy.maxRetries)
    => (r.pc = "wait" \/ r.retries > i)

\* the decimal digits of a timeout failure, between the fixed texts
IsTimeoutFailure(msg) ==
  /\ Len(msg) > Len(MsgTimeoutPrefix) + Len(MsgTimeoutSuffix)
  /\ SubSeq(msg, 1, Len(MsgTimeoutPrefix)) = MsgTimeoutPrefix
  /\ SubSeq(msg, Len(msg) - Len(MsgTimeoutSuffix) + 1, Len(msg)) = MsgTimeoutSuffix
  /\ \A i \in (Len(MsgTimeoutPrefix) + 1)..(Len(msg) - Len(MsgTimeoutSuffix)) :
       \E d \in 1..Len(DigitChars) : DigitChars[d] = msg[i]

DigitValue(c) == (CHOOSE d \in 1..Len(DigitChars) : DigitChars[d] = c) - 1

RECURSIVE CharsToNum(_)
CharsToNum(chars) ==
  IF chars = <<>> THEN 0
  ELSE CharsToNum(SubSeq(chars, 1, Len(chars) - 1)) * 10
         + DigitValue(chars[Len(chars)])

TimeoutDuration(msg) ==
  CharsToNum(SubSeq(msg, Len(MsgTimeoutPrefix) + 1,
                    Len(msg) - Len(MsgTimeoutSuffix)))

\* C10 - Timeout is retryable: every attempt whose guard timer fired is
\* recorded as a failure whose description is a timeout failure carrying the
\* configured operationTimeout, and the call retries it (waits, then goes on
\* to the next attempt) unless its index has reached maxRetries, in which
\* case the call returns false.
C10_TimeoutRetryable ==
  LET r == run[Caller] IN
  \A e \in r.expired :
    /\ e.ms = operationTimeout
    /\ Len(r.own) >= e.attempt
    /\ Failed(r.own[e.attempt])
    /\ r.own[e.attempt].attempt = e.attempt
    /\ IsTimeoutFailure(r.own[e.attempt].error)
    /\ TimeoutDuration(r.own[e.attempt].error) = e.ms
    /\ IF e.attempt < retryPolicy.maxRetries
       THEN (r.pc = "wait" /\ r.retries = e.attempt) \/ r.retries > e.attempt
       ELSE r.pc = "done" /\ r.result = FALSE /\ Len(r.own) = e.attempt

C10_Witness ==
  LET r == run[Caller] IN
  \E e \in r.expired :
    /\ e.attempt < retryPolicy.maxRetries
    /\ e.ms = 1
    /\ r.retries > e.attempt

\* ------------------------------------------------------------------------
\* Properties of the backoff calculator (SpecDelay)
\* ------------------------------------------------------------------------
\* C7 - Delay clamp: for every attempt index >= 1 and every policy with
\* 0 <= initialDelayMs <= maxDelayMs, the delay returned by calculateDelay
\* lies in [0, maxDelayMs].
C7_DelayClamp ==
  (/\ calc.attempt >= 1
   /\ 0 <= retryPolicy.initialDelayMs
   /\ retryPolicy.initialDelayMs <= retryPolicy.maxDelayMs)
  => (0 <= calc.delay /\ calc.delay <= retryPolicy.maxDelayMs * DelayScale)

\* C8 - Jitter bound: with base = min(initialDelayMs *
\* backoffMultiplier^(attempt-1), maxDelayMs), the delay returned by
\* calculateDelay lies in [base * (1 - 1/5), base * (1 + 1/5)] and is not
\* negative, for attempt index 1 as for the others.
C8_JitterBound ==
  calc.attempt >= 1
  => LET base == Min(retryPolicy.initialDelayMs
                       * Pow(retryPolicy.backoffMultiplier, calc.attempt - 1),
                     retryPolicy.maxDelayMs)
     IN  /\ base * (JitterInv - 1) * RandDen <= calc.delay
         /\ calc.delay <= base * (JitterInv + 1) * RandDen
         /\ calc.delay >= 0

C8_Witness ==
  /\ calc.attempt = 1
  /\ retryPolicy.initialDelayMs > 0
  /\ calc.delay < retryPolicy.initialDelayMs * DelayScale

\* C9 - Backoff monotonic bound: under a fixed policy the delays without
\* jitter never decrease from one attempt index to the next, and once one of
\* them equals maxDelayMs every later one equals maxDelayMs.
C9_BackoffMonotone ==
  \A i \in 1..Len(calc.bases) : \A j \in 1..Len(calc.bases) :
    i < j => (/\ calc.bases[i] <= calc.bases[j]
              /\ calc.bases[i] = retryPolicy.maxDelayMs
                   => calc.bases[j] = retryPolicy.maxDelayMs)

C9_Witness ==
  /\ Len(calc.bases) >= 4
  /\ calc.bases[1] < calc.bases[2]
  /\ calc.bases[2] < calc.bases[3]
  /\ calc.bases[3] = retryPolicy.maxDelayMs
  /\ calc.bases[4] = retryPolicy.maxDelayMs

\* ------------------------------------------------------------------------
\* Properties of the error classifier (SpecClassify)
\* ------------------------------------------------------------------------
\* the same letter, in either case
SameLetter(a, b) ==
  \/ a = b
  \/ \E k \in 1..Len(UpperChars) :
       {a, b} = {UpperChars[k], LowerChars[k]}

Markers ==
  { PatTimeout, PatNetwork, PatFailedToStartDevice, PatNotFoundError,
    PatTemporary }

\* msg contains one of the markers, letter case ignored
ContainsMarker(msg) ==
  \E m \in Markers : \E i \in 0..(Len(msg) - Len(m)) :
    \A j \in 1..Len(m) : SameLetter(msg[i + j], m[j])

\* C11 - Fail-closed classification: an error description is classified
\* retryable exactly when it contains, letter case ignored, one of the
\* markers timeout, network, FAILED_TO_START_DEVICE, NotFoundError,
\* temporary; a description containing none of them makes the catch block
\* leave the retry loop, and only such a description does.
C11_FailClosed ==
  classified.applied
  => (/\ classified.retryable <=> ContainsMarker(classified.errorMsg)
      /\ classified.breaks <=> ~ContainsMarker(classified.errorMsg))

C11_Witness ==
  /\ classified.applied
  /\ classified.errorMsg = Filler(1) \o toLowerCase(PatFailedToStartDevice)
  /\ classified.retryable
  /\ ~classified.breaks

\* ------------------------------------------------------------------------
\* Properties of the history (Spec)
\* ------------------------------------------------------------------------
\* C13 - Record ordering: the records a call has appended carry the attempt
\* indices 1, 2, ..., k in that order, and the history holds them in
\* strictly increasing index order, also when attempts were retried.
C13_RecordOrdering ==
  LET r == run[Caller] IN
  /\ \A i \in 1..Len(r.own) : r.own[i].attempt = i
  /\ \A i \in 1..Len(context) : \A j \in 1..Len(context) :
       i < j => context[i].attempt < context[j].attempt

C13_Witness ==
  LET r == run[Caller] IN
  /\ Len(context) = 3
  /\ context = r.own
  /\ Failed(context[1]) /\ Failed(context[2]) /\ context[3].success
  /\ context[1].timestamp < context[3].timestamp

InAttempt(r) == r.pc \in {"capture", "cacheOpen", "cachePut", "media"}

\* the records of a call: one for every attempt that has ended, none for the
\* attempt in progress, and the history holds just these
C15_Counted ==
  LET r == run[Caller] IN
  /\ r.pc = "idle" => r.own = <<>>
  /\ InAttempt(r) => Len(r.own) = r.retries - 1
  /\ r.pc \in {"wait", "done"} => Len(r.own) = r.retries
  /\ context = r.own \/ (r.pc = "done" /\ context = <<>>)

\* the history grows only by the record of the attempt in progress, at the
\* step that ends the attempt
C15_Step ==
  LET r == run[Caller]
      q == run'[Caller]
  IN  /\ Len(context') > Len(context)
           => (/\ InAttempt(r)
               /\ ~InAttempt(q) \/ q.retries = r.retries + 1
               /\ context' = Append(context, Last(q.own))
               /\ q.own = Append(r.own, Last(q.own))
               /\ Last(q.own).attempt = r.retries)
      /\ (InAttempt(r) /\ (~InAttempt(q) \/ q.retries # r.retries))
           => Len(context') = Len(context) + 1

\* C15 - One record per attempt: every attempt a call starts appends exactly
\* one record, when its outcome is known and before the backoff wait or the
\* next attempt begins; nothing but an ending attempt appends a record.
C15_OneRecordPerAttempt == []C15_Counted /\ [][C15_Step]_vars

C15_Witness ==
  LET r == run[Caller] IN
  /\ r.pc = "wait"
  /\ r.retries = 2
  /\ Len(context) = 2
  /\ context = r.own

\* ------------------------------------------------------------------------
\* Properties of the retry loop (Spec)
\* ------------------------------------------------------------------------
\* the last attempt has ended and ends the call
Terminal(r) ==
  /\ r.own # <<>>
  /\ Len(r.own) = r.retries
  /\ \/ Last(r.own).success
     \/ r.retries = retryPolicy.maxRetries
     \/ FailedFatally(Last(r.own))

\* C18 - Bounded attempts and terminal conditions: a call never performs
\* more than maxRetries attempts; it has stopped exactly when its last
\* attempt succeeded, or was attempt number maxRetries, or failed with a
\* fatal error, and in no other situation.
C18_BoundedAttempts ==
  LET r == run[Caller] IN
  /\ r.retries <= retryPolicy.maxRetries
  /\ Len(r.own) <= retryPolicy.maxRetries
  /\ r.pc # "idle" => (r.pc = "done" <=> Terminal(r))

C18_Witness ==
  LET r == run[Caller] IN
  /\ retryPolicy.maxRetries = 3
  /\ r.pc = "done"
  /\ r.retries = 2
  /\ FailedRetryably(r.own[1])
  /\ FailedFatally(r.own[2])

\* the backoff waits a call has begun: one after every retryable failure
\* of an attempt below the budget, none after another attempt; a call that
\* is waiting waits for the delay calculateDelay gave for the failed attempt
C19_Waits ==
  LET r == run[Caller]
      N == retryPolicy.maxRetries
  IN  /\ r.waits = Cardinality({i \in 1..Len(r.own) :
                                  FailedRetryably(r.own[i]) /\ i < N})
      /\ r.pc = "wait"
           => (/\ Len(r.own) = r.retries
               /\ FailedRetryably(Last(r.own))
               /\ r.retries < N
               /\ \E u \in 0..(RandDen - 1) :
                    r.delayMs = calculateDelay(retryPolicy, r.retries, u))

\* attempt i+1 starts from the wait that follows attempt i, when the delay
\* has elapsed, and a wait ends in nothing but the start of attempt i+1
C19_Step ==
  LET r == run[Caller]
      q == run'[Caller]
  IN  /\ (r.retries >= 1 /\ q.retries = r.retries + 1)
           => (/\ r.pc = "wait"
               /\ (now - r.waitStart) * DelayScale >= r.delayMs)
      /\ (r.pc = "wait" /\ q # r)
           => (/\ q.pc = "capture"
               /\ q.retries = r.retries + 1
               /\ q.own = r.own)

\* C19 - RetryWait protocol: after a retryable failure of attempt i the call
\* stops without waiting when i = maxRetries, and otherwise waits the delay
\* computed by calculateDelay(i) and only then starts attempt i+1; there is
\* no wait after a success or after a fatal failure.
C19_RetryWait == []C19_Waits /\ [][C19_Step]_vars

C19_Witness ==
  LET r == run[Caller] IN
  /\ retryPolicy.initialDelayMs = 1
  /\ r.retries = 2
  /\ r.waits = 1
  /\ FailedRetryably(r.own[1])
  /\ r.own[1].timestamp + r.own[1].durationMs < r.attemptStartTime

\* C22 - Cache key uniqueness: the cache keys of distinct attempts of one
\* call are pairwise distinct, whatever the retry policy (zero delays
\* included) and the timing of the attempts.
C22_CacheKeysDistinct ==
  LET r == run[Caller] IN
  \A i \in 1..Len(r.own) : \A j \in 1..Len(r.own) :
    i # j => r.own[i].cacheKey # r.own[j].cacheKey

HasStep(steps, step) == \E k \in 1..Len(steps) : steps[k] = step

\* the lines an attempt without any cache failure leaves in its steps
RegularSteps ==
  {CaptureSteps[k] : k \in 1..Len(CaptureSteps)} \cup {StepCached, StepCloned}

\* C23 - A caching failure is visible in the trace only: the record of an
\* attempt whose screenshot was not stored (Cache Store absent, open or put
\* rejected) carries a line about the failure in its steps and no "cached
\* successfully" line; that line stands only in records of attempts whose
\* screenshot was stored.
C23_CacheFailureInTrace ==
  LET r == run[Caller] IN
  (r.pc = "done" /\ r.result = TRUE /\ r.cached \in CacheFailures)
  => (/\ ~HasStep(Last(r.own).steps, StepCached)
      /\ \E k \in 1..Len(Last(r.own).steps) :
           Last(r.own).steps[k] \notin RegularSteps)

\* the place of a collaborator in the pipeline of an attempt
Rank(op) ==
  CASE op = "capture" -> 1
    [] op = "cache" -> 2
    [] op = "media" -> 3
    [] op = "clone" -> 4

Invoked(r, op) == \E k \in 1..Len(r.invoked) : r.invoked[k].op = op

\* C30 - Pipeline order within an attempt: the collaborators are invoked in
\* the order capture, cache store, display-media acquisition, clone, each at
\* most once and the awaited one last; the cache store is not invoked when
\* the capture gave no blob or timed out; the clone is not invoked when the
\* capture or the display-media acquisition failed or timed out.
C30_PipelineOrder ==
  LET r == run[Caller]
      ended == r.pc \in {"wait", "done"} /\ Len(r.own) = r.retries
  IN
  /\ \A j \in 1..Len(r.invoked) : \A k \in 1..Len(r.invoked) :
       j < k => Rank(r.invoked[j].op) < Rank(r.invoked[k].op)
  /\ r.retries >= 1 => (r.invoked # <<>> /\ r.invoked[1].op = "capture")
  /\ r.pc = "capture" => Last(r.invoked).op = "capture"
  /\ r.pc \in {"cacheOpen", "cachePut"} => Last(r.invoked).op = "cache"
  /\ r.pc = "media" => Last(r.invoked).op = "media"
  /\ Invoked(r, "cache") => r.blob = "Blob"
  /\ Invoked(r, "media")
       => (r.blob = "Blob" /\ (cachesAvailable => Invoked(r, "cache")))
  /\ Invoked(r, "clone")
       => /\ Invoked(r, "media")
          /\ ended
          /\ ~\E e \in r.expired : e.attempt = r.retries
          /\ IF Last(r.own).success THEN TRUE
             ELSE Last(r.own).error \in CloneErrors

C30_Witness ==
  LET r == run[Caller] IN
  /\ r.pc = "wait"
  /\ Len(r.invoked) = 3
  /\ Invoked(r, "cache")
  /\ Invoked(r, "media")
  /\ ~Invoked(r, "clone")
  /\ Failed(Last(r.own))
  /\ Last(r.own).error \in EnvErrors

\* ------------------------------------------------------------------------
\* Properties of the history over several calls (SpecRuns)
\* ------------------------------------------------------------------------
IsPrefix(a, b) == Len(a) <= Len(b) /\ SubSeq(b, 1, Len(a)) = a

\* the history is what the call found followed by what it appended, until
\* clearContext is called after the call
C14_Accumulates ==
  LET r == run[Caller] IN
  \/ context = r.before \o r.own
  \/ Quiescent /\ context = <<>>

\* a step extends the history at its end, or it is clearContext
C14_Step == IsPrefix(context, context') \/ ClearContext

\* C14 - Append-only, accumulating history: a call leaves the records it
\* found unchanged and in order and appends its own records after them;
\* records persist from call to call and are removed only by clearContext,
\* so the history after several calls is the concatenation of their records.
C14_AppendOnly == []C14_Accumulates /\ [][C14_Step]_vars

C14_Witness ==
  LET r == run[Caller] IN
  /\ started = 2
  /\ r.pc = "done"
  /\ Len(r.before) = 2
  /\ Len(r.own) = 2
  /\ context = r.before \o r.own
  /\ getContext[3].attempt = 1

SuccessIndices == {i \in 1..Len(context) : context[i].success}

\* C16 - getLastCacheKey: the answer is the cache key of the success record
\* that comes last in the history, whatever follows it, and null when the
\* history holds no success record (it is empty, it was cleared, or every
\* attempt failed).
C16_LastCacheKey ==
  IF SuccessIndices = {}
  THEN getLastCacheKey = Null
  ELSE LET m == CHOOSE i \in SuccessIndices : \A j \in SuccessIndices : j <= i
       IN  getLastCacheKey = context[m].cacheKey

C16_Witness ==
  /\ Len(context) = 4
  /\ Failed(context[1]) /\ context[2].success
  /\ Failed(context[3]) /\ context[4].success
  /\ context[2].cacheKey # context[4].cacheKey
  /\ getLastCacheKey = context[4].cacheKey

C17_Step ==
  ClearContext
  => (/\ context' = <<>>
      /\ metrics'.totalAttempts = 0
      /\ metrics'.successfulAttempts = 0
      /\ metrics'.totalTimeMs = 0
      /\ retryPolicy' = retryPolicy
      /\ operationTimeout' = operationTimeout)

\* C17 - clearContext: a call of clearContext leaves the history empty and
\* totalAttempts, successfulAttempts and totalTimeMs at zero, and leaves the
\* retry policy and the operation timeout as they were.
C17_ClearResets == [][C17_Step]_vars

\* clearContext was called after a call that appended records and took time,
\* under a policy that is not the default one
C17_Witness ==
  LET r == run[Caller] IN
  /\ r.pc = "done"
  /\ Len(r.own) = 2
  /\ now > r.startTime
  /\ context = <<>>
  /\ metrics = [totalAttempts |-> 0, successfulAttempts |-> 0, totalTimeMs |-> 0]
  /\ retryPolicy = RunsPolicy
  /\ operationTimeout = DefaultOperationTimeout

\* equality of two finite quotients of Divide
SameQuotient(p, q) == p.num * q.den = q.num * p.den

Successes(ctx) == Cardinality({i \in 1..Len(ctx) : ctx[i].success})

C26_Rate ==
  (context # <<>> /\ ~InAttempt(run[Caller]))
  => /\ IsFiniteNumber(getMetrics.successRate)
     /\ SameQuotient(getMetrics.successRate,
                     Times(Divide(Successes(context), Len(context)), 100))

\* the step in which a call returns: the elapsed time of the call is added
\* to the total of the calls that returned since the last clear
C26_Step ==
  (/\ run[Caller].pc # "done"
   /\ run'[Caller].pc = "done"
   /\ context' # <<>>)
  => /\ IsFiniteNumber(getMetrics'.avgTimePerAttemptMs)
     /\ SameQuotient(getMetrics'.avgTimePerAttemptMs,
                     Divide(metrics.totalTimeMs + (now' - run[Caller].startTime),
                            Len(context')))

\* C26 - Metrics formulas: while the history is not empty, over any number
\* of calls since the last clear, getMetrics reports the success rate
\* (number of success records) / (number of records), in percent, and the
\* average duration (total elapsed time of all those calls) / (number of
\* records).
C26_MetricsFormulas == []C26_Rate /\ [][C26_Step]_vars

\* ------------------------------------------------------------------------
\* Properties of the counters under clearContext (SpecClear)
\* ------------------------------------------------------------------------
\* C33 - Counter/ledger consistency: whenever no runFlow call is in
\* progress, after any sequence of runFlow and clearContext calls,
\* clearContext during a call included, metrics.totalAttempts is the number
\* of records of the history and metrics.successfulAttempts the number of
\* its success records.
C33_CountersMatchLedger ==
  Quiescent
  => /\ metrics.totalAttempts = Len(context)
     /\ metrics.successfulAttempts = Successes(context)

\* ------------------------------------------------------------------------
\* Properties of a call without attempt budget (SpecBudget)
\* ------------------------------------------------------------------------
\* the step in which runFlow is called under a maxRetries of 0 or less
C34_Step ==
  (started' = started + 1 /\ retryPolicy.maxRetries <= 0)
  => /\ run'[Caller].pc = "done"
     /\ run'[Caller].result = FALSE
     /\ run'[Caller].invoked = <<>>
     /\ run'[Caller].timers = {}
     /\ run'[Caller].own = <<>>
     /\ context' = context
     /\ metrics'.totalAttempts = metrics.totalAttempts
     /\ metrics'.successfulAttempts = metrics.successfulAttempts
     /\ cacheStore' = cacheStore
     /\ listeners' = listeners

\* C34 - Degenerate budget: under a maxRetries of 0 or a negative value set
\* through setRetryPolicy, a runFlow call invokes no collaborator, appends
\* no record, leaves totalAttempts and successfulAttempts as they were and
\* returns false.
C34_DegenerateBudget == [][C34_Step]_vars

C34_Witness ==
  /\ started = 2
  /\ run[Caller].pc = "done"
  /\ run[Caller].policyAtStart.maxRetries < 0
  /\ run[Caller].result = FALSE
  /\ run[Caller].invoked = <<>>
  /\ context # <<>>
  /\ metrics.totalAttempts = Len(context)

\* ------------------------------------------------------------------------
\* Properties of the keydown listeners (SpecKeys)
\* ------------------------------------------------------------------------
\* one listener for every clone that completed, that is for every success
\* record: a call that returned true has exactly one
C37_Attached == listeners = Successes(context)

\* no listener is removed; a completed clone adds one; a key press that
\* triggers (Enter or Space, an element being active) makes as many clicks
\* and as many action-log entries as listeners are attached
C37_Step ==
  /\ listeners' >= listeners
  /\ Invoked(run'[Caller], "clone") /\ ~Invoked(run[Caller], "clone")
       <=> listeners' = listeners + 1
  /\ page'.keys = page.keys + 1
       => /\ page'.clicks - page.clicks \in {0, listeners}
          /\ Len(page'.actionLogs) - Len(page.actionLogs)
               = page'.clicks - page.clicks
          /\ IsPrefix(page.actionLogs, page'.actionLogs)

C20_ConfigForLaterRuns ==
  LET r == run[Caller]
      N == r.policyAtStart.maxRetries
  IN  r.pc # "idle"
      => (/\ r.retries <= N
          /\ (r.pc = "done" /\ \A i \in 1..Len(r.own) : FailedRetryably(r.own[i]))
               => r.retries = N
          /\ r.pc = "wait"
               => \E u \in 0..(RandDen - 1) :
                    r.delayMs = calculateDelay(r.policyAtStart, r.retries, u)
          /\ r.pc \in {"capture", "media"} => r.guardMs = r.timeoutAtStart)

\* ------------------------------------------------------------------------
\* Properties of two concurrent calls (SpecConcurrent)
\* ------------------------------------------------------------------------
\* c is an interleaving of a and b
RECURSIVE IsMerge(_, _, _)
IsMerge(c, a, b) ==
  IF c = <<>> THEN a = <<>> /\ b = <<>>
  ELSE \/ a # <<>> /\ Head(a) = Head(c) /\ IsMerge(Tail(c), Tail(a), b)
       \/ b # <<>> /\ Head(b) = Head(c) /\ IsMerge(Tail(c), a, Tail(b))

\* C21 - Concurrent runs share one ledger: with two calls in progress the
\* history is an interleaving of the records of the two calls, each attempt
\* that has ended recorded once, and the records of each call carry the
\* indices 1, 2, ... in that order.
C21_SharedLedger ==
  /\ IsMerge(context, run[1].own, run[2].own)
  /\ \A r \in Runs :
       /\ \A i \in 1..Len(run[r].own) : run[r].own[i].attempt = i
       /\ Len(run[r].own) = IF InAttempt(run[r]) THEN run[r].retries - 1
                                                 ELSE run[r].retries

C21_Witness ==
  /\ Len(context) = 4
  /\ run[1].pc = "done" /\ run[2].pc = "done"
  /\ context[1] = run[1].own[1]
  /\ context[2] = run[2].own[1]
  /\ context[3] = run[2].own[2]
  /\ context[4] = run[1].own[2]
  /\ context[2].timestamp > context[1].timestamp

\* ------------------------------------------------------------------------
\* Properties of the timeout guard (SpecGuard)
\* ------------------------------------------------------------------------
\* C24 - The clone step is under the Timeout Guard: cloneAndMimic is invoked
\* under withTimeout, as the capture and getDisplayMedia are, so that a
\* clone that does not complete ends the attempt with a timeout failure.
C24_CloneGuarded ==
  LET r == run[Caller] IN
  \A k \in 1..Len(r.invoked) :
    r.invoked[k].op \in {"capture", "media", "clone"} => r.invoked[k].guarded

\* the step in which an operation left running by its guard settles
C35_Step ==
  run'[Caller].settled # run[Caller].settled
  => /\ context' = context
     /\ metrics' = metrics
     /\ run' = [run EXCEPT ![Caller].settled = run'[Caller].settled]
     /\ cacheStore' = cacheStore
     /\ listeners' = listeners

\* C35 - Orphaned operations are harmless to the ledger: when the operation
\* of a guard that timed out completes or fails later, during the wait, a
\* following attempt or after the call, no record is appended, no counter
\* changes, and the position, the records and the outcome of the call stay
\* as they were.
C35_OrphansHarmless == [][C35_Step]_vars

C35_Witness ==
  LET r == run[Caller] IN
  /\ r.pc = "media"
  /\ r.retries = 2
  /\ r.settled = {1}
  /\ Len(context) = 1
  /\ metrics.totalAttempts = 2

\* C36 - Run termination: the timers firing, every runFlow call that has
\* begun returns in the end, also when a collaborator (capture, cache open
\* or put, display-media acquisition) never completes.
C36_RunTerminates == Active(Caller) ~> run[Caller].pc = "done"

\* C25 - Timeout Guard pass-through and timer release: an attempt is
\* recorded as a timeout failure only when the deadline timer of its guard
\* fired first, and once the guarded operation has completed the timer of
\* its guard is released: the only timer pending is that of the guard whose
\* operation the call is awaiting.
C25_TimerReleased ==
  LET r == run[Caller] IN
  /\ \A i \in 1..Len(r.own) :
       (Failed(r.own[i]) /\ IsTimeoutFailure(r.own[i].error))
       => \E e \in r.expired : e.attempt = i
  /\ \A t \in r.timers : IsCurrentGuard(Caller, t)

\* ------------------------------------------------------------------------
\* Properties of the orchestrator of Orchestrator.ts (SpecSimple)
\* ------------------------------------------------------------------------
SimplePositions ==
  {"idle", "capture", "cacheOpen", "cachePut", "media", "wait", "done"}

\* C12 - runFlow never throws: a call never ends by an exception, whatever
\* the capture, the cache store, getDisplayMedia and the clone do, and a call
\* that has finished has returned a boolean, true exactly when the last
\* record it appended is a success.
C12_NeverThrows ==
  /\ simple.pc \in SimplePositions
  /\ simple.pc = "done"
       => (/\ simple.result # Undefined
           /\ simple.result
                = (simple.own # <<>> /\ Last(simple.own).success))

\* the failures of a getDisplayMedia rejection, a clone exception or an
\* empty capture, as the catch block of Orchestrator.runFlow records them
SimpleFailedWith(rec, errorMsg) ==
  ~rec.success /\ rec.steps = <<StepWith("Error: ", errorMsg)>>

SimpleErrors == EnvErrors \cup CloneErrors \cup {MsgCaptureFailed}

\* the policy of OrchestratorV2 with multiplier 1 whose delay is that of the
\* first wait of Orchestrator.runFlow
SimpleAsPolicy ==
  [maxRetries |-> simple.maxRetries, initialDelayMs |-> SimpleDelay(1),
   maxDelayMs |-> SimpleDelay(1), backoffMultiplier |-> 1]

\* C27 - The simple orchestrator is the backoff orchestrator under the
\* policy {multiplier 1, jitter 0}: it waits the fixed delay that
\* calculateDelay gives without jitter under that policy, and it makes the
\* attempts OrchestratorV2 makes: a failure that isRetryableError does not
\* accept ends the call.
C27_SimpleIsFixedDelayPolicy ==
  /\ simple.pc = "wait"
       => simple.delayMs = exponentialDelay(SimpleAsPolicy, simple.retries)
  /\ \A i \in 1..Len(simple.own) : \A e \in SimpleErrors :
       (SimpleFailedWith(simple.own[i], e) /\ ~isRetryableError(e))
       => (simple.pc = "done" /\ i = Len(simple.own))

\* C27 (amended) - Orchestrator.runFlow retries every failure, whatever its
\* description, until an attempt succeeds or maxRetries attempts are made,
\* and waits 1000 ms times the index of the failed attempt before the next
\* one.
C27_SimpleLinearRetry ==
  /\ \A i \in 1..Len(simple.own) :
       /\ simple.own[i].attempt = i
       /\ simple.own[i].success => i = Len(simple.own)
  /\ simple.pc = "wait"
       => /\ simple.delayMs = 1000 * simple.retries
          /\ simple.retries = Len(simple.own)
          /\ simple.retries < simple.maxRetries
          /\ ~Last(simple.own).success
  /\ simple.waits
       = Cardinality({i \in 1..Len(simple.own) :
                       ~simple.own[i].success /\ i < simple.maxRetries})
  /\ simple.pc = "done"
       => /\ simple.own # <<>>
          /\ Last(simple.own).success \/ Len(simple.own) = simple.maxRetries

C27_Witness ==
  /\ simple.pc = "wait"
  /\ simple.retries = 2
  /\ simple.delayMs = 2000
  /\ SimpleFailedWith(simple.own[1], MsgPermissionDenied)
  /\ ~isRetryableError(MsgPermissionDenied)

\* ------------------------------------------------------------------------
\* Properties of AIOrchestrator.executeTask (SpecAI)
\* ------------------------------------------------------------------------
\* the step of executeTask that records an executed step
C28_Step ==
  Len(ai'.steps) = Len(ai.steps) + 1
  => ai'.executionHistory = Append(ai.executionHistory, Last(ai'.steps))

\* C28 - AIOrchestrator tracks execution history: every step executeTask
\* executes is added to the history that getExecutionHistory returns, so
\* that after the call the history holds the executed steps.
C28_TracksHistory == [][C28_Step]_vars

\* C29 - AIOrchestrator task timeout: no step begins when the time elapsed
\* since executeTask started exceeds task.timeout, and a result of status
\* 'timeout' is returned at the start of a step that was still to execute,
\* when the elapsed time exceeded task.timeout, with the error 'Task
\* execution timeout', finalDecision null and the steps executed so far.
C29_TaskTimeout ==
  /\ ai.pc \in {"analyze", "suggest"}
       => ai.stepStart - ai.startTime <= ai.task.timeout
  /\ (ai.pc = "done" /\ ai.result.status = "timeout")
       => /\ ai.returnedAt - ai.startTime > ai.task.timeout
          /\ ai.i < Min(ai.workflowSteps, ai.task.maxSteps)
          /\ ai.result.error = MsgTaskTimeout
          /\ ai.result.finalDecision = Null
          /\ ai.result.steps = ai.steps
          /\ Len(ai.steps) <= ai.i
          /\ \A k \in 1..Len(ai.steps) : ai.steps[k].stepNumber <= ai.i

C29_Witness ==
  /\ ai.pc = "done"
  /\ ai.result.status = "timeout"
  /\ Len(ai.result.steps) = 1
  /\ ai.currentDecision \in Decisions
  /\ ai.result.finalDecision = Null

\* the index of the last step executeTask is to execute
LastStepIndex == Min(ai.workflowSteps, ai.task.maxSteps) - 1

\* C31 - AIOrchestrator last-step failure: when the last step that
\* executeTask executes (index min(workflowSteps.length, maxSteps) - 1)
\* fails, executeTask returns status 'failed' with the error of that step
\* (or of the recovery that followed it), and a result 'failed' with a
\* step's error is returned for the last step only: the failure of an
\* earlier step is skipped.
C31_LastStepFailure ==
  /\ (/\ ai.pc = "done"
      /\ ai.stepError = MsgAnalysisFailed
      /\ ai.result.status # "timeout"
      /\ ai.i >= LastStepIndex)
       => /\ ai.result.status = "failed"
          /\ ai.result.error \in {MsgAnalysisFailed, MsgSuggestFailed}
  /\ (/\ ai.pc = "done"
      /\ ai.result.status = "failed"
      /\ ai.result.error = MsgAnalysisFailed)
       => ai.i = LastStepIndex

AIPositions == {"idle", "parse", "analyze", "suggest", "done"}

\* C32 - executeTask never throws: whatever fails (workflow parsing, context
\* analysis, error-resolution suggestion) the call ends by returning a
\* result of status 'success', 'failed' or 'timeout'; each recorded step
\* carries the number of its workflow position, the numbers increase
\* strictly; and when the call has returned the conversation history of the
\* adapter is empty.
C32_NeverThrows ==
  /\ ai.pc \in AIPositions
  /\ \A k \in 1..Len(ai.steps) :
       /\ ai.steps[k].stepNumber = ai.steps[k].action
       /\ ai.steps[k].stepNumber \in 1..Min(ai.workflowSteps, ai.task.maxSteps)
       /\ k > 1 => ai.steps[k - 1].stepNumber < ai.steps[k].stepNumber
  /\ ai.pc = "done"
       => /\ ai.result.status \in {"success", "failed", "timeout"}
          /\ ai.result.steps = ai.steps
          /\ ai.conversation = 0

C32_Witness ==
  /\ ai.pc = "done"
  /\ ai.result.status = "failed"
  /\ ai.result.error = MsgSuggestFailed
  /\ Len(ai.result.steps) = 1
  /\ ai.result.steps[1].stepNumber = 1
  /\ ai.i = 1

\* C38 - Audit log bound: after any sequence of logAudit calls, direct or
\* through the credential, CORS and clear operations, the in-memory audit
\* log holds at most MAX_AUDIT_ENTRIES entries; the entries kept are the
\* most recently logged ones, in the order in which they were logged; and
\* after clearAuditTrail the log is empty.
C38_Kept ==
  /\ Len(audit.auditLog) = Min(audit.sinceClear, MAX_AUDIT_ENTRIES)
  /\ \A k \in 1..Len(audit.auditLog) :
       audit.auditLog[k].serial = audit.logged - Len(audit.auditLog) + k

C38_Step ==
  audit'.sinceClear = 0 => audit'.auditLog = <<>>

C38_AuditLogBound == []C38_Kept /\ [][C38_Step]_vars

C38_Witness ==
  /\ audit.sinceClear > MAX_AUDIT_ENTRIES
  /\ Len(audit.auditLog) = MAX_AUDIT_ENTRIES
  /\ audit.auditLog[1].serial = audit.logged - MAX_AUDIT_ENTRIES + 1
  /\ audit.auditLog[MAX_AUDIT_ENTRIES].action = "credential_stored"

====
